---- MODULE Spec2Model ----
(***************************************************************************)
(* Model of the write-safety layer and storage adapter of ccql             *)
(* (crates/ccql/src/sql): SqlEngine::execute, SafetyGuard, the mutation    *)
(* dispatch of CompositeStorage and the `sql` command.                     *)
(*                                                                         *)
(* Text is modelled as a sequence of one-character strings so that the     *)
(* string tests of the code (trim, to_uppercase, starts_with, find,        *)
(* split_whitespace) are computed as the code computes them.               *)
(***************************************************************************)
EXTENDS Integers, Sequences, FiniteSets, TLC

(***************************************************************************)
(* Bounds                                                                  *)
(***************************************************************************)
\* file contents are abstracted to 0..MaxContent; 0 is the empty file
MaxContent == 1

Contents == 0..MaxContent

(***************************************************************************)
(* Characters and strings (Rust str / char methods)                        *)
(***************************************************************************)
LowerChars == <<"a", "b", "c", "d", "e", "f", "g", "h", "i", "j", "k", "l", "m",
                "n", "o", "p", "q", "r", "s", "t", "u", "v", "w", "x", "y", "z">>

UpperChars == <<"A", "B", "C", "D", "E", "F", "G", "H", "I", "J", "K", "L", "M",
                "N", "O", "P", "Q", "R", "S", "T", "U", "V", "W", "X", "Y", "Z">>

DigitChars == {"0", "1", "2", "3", "4", "5", "6", "7", "8", "9"}

\* char::is_whitespace on the characters the model uses
is_whitespace(c) == c \in {" ", "\t", "\n"}

\* char::is_alphanumeric
is_alphanumeric(c) ==
    \/ \E i \in 1..26 : LowerChars[i] = c \/ UpperChars[i] = c
    \/ c \in DigitChars

to_uppercase_char(c) ==
    IF \E i \in 1..26 : LowerChars[i] = c
    THEN UpperChars[CHOOSE i \in 1..26 : LowerChars[i] = c]
    ELSE c

to_lowercase_char(c) ==
    IF \E i \in 1..26 : UpperChars[i] = c
    THEN LowerChars[CHOOSE i \in 1..26 : UpperChars[i] = c]
    ELSE c

\* The value of e with x bound to the value of v is written
\* The({e : x \in {v}}): the bound x is evaluated once, where an operator
\* argument or a LET definition is evaluated again at each of its uses.
The(S) == CHOOSE x \in S : TRUE

\* str::to_uppercase
to_uppercase(s0) == The({[i \in 1..Len(s) |-> to_uppercase_char(s[i])] : s \in {s0}})

\* str::to_lowercase
to_lowercase(s0) == The({[i \in 1..Len(s) |-> to_lowercase_char(s[i])] : s \in {s0}})

\* str::trim_start: drop leading whitespace
trim_start(s0) ==
    The({ IF \A i \in 1..Len(s) : is_whitespace(s[i])
          THEN << >>
          ELSE SubSeq(s, CHOOSE i \in 1..Len(s) :
                            /\ ~is_whitespace(s[i])
                            /\ \A j \in 1..(i - 1) : is_whitespace(s[j]),
                      Len(s)) : s \in {s0} })

\* str::trim_end: drop trailing whitespace
trim_end(s0) ==
    The({ IF \A i \in 1..Len(s) : is_whitespace(s[i])
          THEN << >>
          ELSE SubSeq(s, 1, CHOOSE i \in 1..Len(s) :
                               /\ ~is_whitespace(s[i])
                               /\ \A j \in (i + 1)..Len(s) : is_whitespace(s[j]))
          : s \in {s0} })

\* str::trim
trim(s) == trim_end(trim_start(s))

\* str::starts_with
starts_with(s0, p0) ==
    \E s \in {s0}, p \in {p0} : Len(s) >= Len(p) /\ SubSeq(s, 1, Len(p)) = p

\* the 0-based offsets at which p occurs in s
Occurrences(s0, p0) ==
    UNION { {i \in 0..(Len(s) - Len(p)) : SubSeq(s, i + 1, i + Len(p)) = p}
            : s \in {s0}, p \in {p0} }

\* str::find(&str): offset of the first occurrence, None as -1
find(s, p) ==
    The({ IF occ = {} THEN -1 ELSE CHOOSE i \in occ : \A j \in occ : i <= j
          : occ \in {Occurrences(s, p)} })

\* str::contains
contains(s, p) == Occurrences(s, p) # {}

\* the length of the leading run of non-whitespace of t
WordLen(t) ==
    IF \E i \in 1..Len(t) : is_whitespace(t[i])
    THEN (CHOOSE i \in 1..Len(t) :
              /\ is_whitespace(t[i])
              /\ \A j \in 1..(i - 1) : ~is_whitespace(t[j])) - 1
    ELSE Len(t)

\* str::split_whitespace: the maximal runs of non-whitespace, in order
RECURSIVE split_whitespace(_)
split_whitespace(s) ==
    The({ IF t = << >> THEN << >>
          ELSE The({ <<SubSeq(t, 1, n)>> \o split_whitespace(SubSeq(t, n + 1, Len(t)))
                     : n \in {WordLen(t)} })
          : t \in {trim_start(s)} })

\* [&str]::join
RECURSIVE join(_, _)
join(words0, sep) ==
    The({ IF words = << >> THEN << >>
          ELSE IF Len(words) = 1 THEN words[1]
          ELSE words[1] \o sep \o join(Tail(words), sep)
          : words \in {words0} })

(***************************************************************************)
(* Literals of the source                                                  *)
(***************************************************************************)
S_INSERT == <<"I", "N", "S", "E", "R", "T">>

S_UPDATE == <<"U", "P", "D", "A", "T", "E">>

S_DELETE == <<"D", "E", "L", "E", "T", "E">>

S_DROP == <<"D", "R", "O", "P">>

S_CREATE == <<"C", "R", "E", "A", "T", "E">>

S_ALTER == <<"A", "L", "T", "E", "R">>

S_TRUNCATE == <<"T", "R", "U", "N", "C", "A", "T", "E">>

S_DELETE_FROM_SP == <<"D", "E", "L", "E", "T", "E", " ", "F", "R", "O", "M", " ">>

S_INSERT_INTO_SP == <<"I", "N", "S", "E", "R", "T", " ", "I", "N", "T", "O", " ">>

S_SP_WHERE_SP == <<" ", "W", "H", "E", "R", "E", " ">>

S_history == <<"h", "i", "s", "t", "o", "r", "y">>

S_stats == <<"s", "t", "a", "t", "s">>

S_jhistory == <<"j", "h", "i", "s", "t", "o", "r", "y">>

S_codex_history == <<"c", "o", "d", "e", "x", "_", "h", "i", "s", "t", "o", "r", "y">>

S_transcripts == <<"t", "r", "a", "n", "s", "c", "r", "i", "p", "t", "s">>

S_todos == <<"t", "o", "d", "o", "s">>

S_dot_jsonl == <<".", "j", "s", "o", "n", "l">>

S_dot_json == <<".", "j", "s", "o", "n">>

S_bak == <<"b", "a", "k">>

(***************************************************************************)
(* Config: the paths of the backing files, relative to the data directory; *)
(* the Codex directory is a different directory.                           *)
(***************************************************************************)
history_file == <<"h", "i", "s", "t", "o", "r", "y", ".", "j", "s", "o", "n", "l">>

stats_file == <<"s", "t", "a", "t", "s", "-", "c", "a", "c", "h", "e", ".", "j", "s", "o", "n">>

jhistory_file == <<".", "c", "o", "d", "e", "x", "/">> \o history_file

\* a path that does not exist: Option::None of the code
None == <<"<none>">>

(***************************************************************************)
(* std::path::Path                                                         *)
(***************************************************************************)
\* the final component of a path
file_name(path0) ==
    The({ IF slashes = {} THEN path
          ELSE SubSeq(path, (CHOOSE i \in slashes : \A j \in slashes : j <= i) + 1,
                      Len(path))
          : path \in {path0}, slashes \in {{i \in 1..Len(path0) : path0[i] = "/"}} })

\* index in path of the dot that starts the extension, 0 when there is none
\* (a dot that starts the file name does not start an extension)
ExtensionDot(path0) ==
    The({ The({ IF dots = {} THEN 0 ELSE CHOOSE i \in dots : \A j \in dots : j <= i
                : dots \in {{i \in (base + 2)..Len(path) : path[i] = "."}} })
          : path \in {path0}, base \in {Len(path0) - Len(file_name(path0))} })

\* Path::extension, the empty string when there is none
extension(path0) ==
    The({ IF dot = 0 THEN << >> ELSE SubSeq(path, dot + 1, Len(path))
          : path \in {path0}, dot \in {ExtensionDot(path0)} })

\* PathBuf::set_extension
set_extension(path0, ext0) ==
    The({ The({ IF ext = << >> THEN stem ELSE stem \o <<".">> \o ext
                : stem \in {IF dot = 0 THEN path ELSE SubSeq(path, 1, dot - 1)} })
          : path \in {path0}, ext \in {ext0}, dot \in {ExtensionDot(path0)} })

(***************************************************************************)
(* safety.rs: classification of statements                                 *)
(***************************************************************************)
\* normalize_sql: collapse whitespace, uppercase
normalize_sql(sql) == to_uppercase(join(split_whitespace(sql), <<" ">>))

is_delete_without_where(sql_normalized) ==
    IF ~starts_with(sql_normalized, S_DELETE \o <<" ">>) THEN FALSE
    ELSE ~contains(sql_normalized, S_SP_WHERE_SP)

is_update_without_where(sql_normalized) ==
    IF ~starts_with(sql_normalized, S_UPDATE \o <<" ">>) THEN FALSE
    ELSE ~contains(sql_normalized, S_SP_WHERE_SP)

is_truncate(sql_normalized) == starts_with(sql_normalized, S_TRUNCATE \o <<" ">>)

\* SafetyGuard::check_query: "Safe" or "Dangerous"
check_query(sql) ==
    The({ IF is_delete_without_where(sql_normalized) THEN "Dangerous"
          ELSE IF is_update_without_where(sql_normalized) THEN "Dangerous"
          ELSE IF is_truncate(sql_normalized) THEN "Dangerous"
          ELSE "Safe"
          : sql_normalized \in {normalize_sql(sql)} })

\* extract_identifier: the leading run of alphanumerics and underscores,
\* lower-cased; None when it is empty
extract_identifier(s0) ==
    The({ The({ The({ IF end > 0 THEN to_lowercase(SubSeq(s, 1, end)) ELSE None
                      : end \in {IF bad = {} THEN Len(s)
                                 ELSE (CHOOSE i \in bad : \A j \in bad : i <= j) - 1} })
                : bad \in {{i \in 1..Len(s) : ~is_alphanumeric(s[i]) /\ s[i] # "_"}} })
          : s \in {trim(s0)} })

\* extract_table_name: first of the four patterns found anywhere in the
\* normalized text decides where the identifier is read
extract_table_name(sql) ==
    The({ LET rest(pat) == SubSeq(n, find(n, pat) + Len(pat) + 1, Len(n))
          IN  IF find(n, S_DELETE_FROM_SP) # -1
              THEN extract_identifier(rest(S_DELETE_FROM_SP))
              ELSE IF find(n, S_UPDATE \o <<" ">>) # -1
                   THEN extract_identifier(rest(S_UPDATE \o <<" ">>))
              ELSE IF find(n, S_INSERT_INTO_SP) # -1
                   THEN extract_identifier(rest(S_INSERT_INTO_SP))
              ELSE IF find(n, S_TRUNCATE \o <<" ">>) # -1
                   THEN extract_identifier(rest(S_TRUNCATE \o <<" ">>))
              ELSE None
          : n \in {normalize_sql(sql)} })

\* create_backup_path: append ".bak" to the extension, "bak" when none
create_backup_path(original) ==
    The({ set_extension(original, IF ext = << >> THEN S_bak ELSE ext \o <<".">> \o S_bak)
          : ext \in {extension(original)} })

\* SafetyGuard::get_table_path over the existing paths; None is the Err
get_table_path(table_name, existing) ==
    IF table_name = S_history THEN history_file
    ELSE IF table_name = S_stats THEN stats_file
    ELSE IF (table_name \o S_dot_jsonl) \in existing THEN table_name \o S_dot_jsonl
    ELSE IF (table_name \o S_dot_json) \in existing THEN table_name \o S_dot_json
    ELSE None

(***************************************************************************)
(* mod.rs: is_write_operation                                              *)
(***************************************************************************)
\* is_write_operation without the trim
is_write_operation_no_trim(sql) ==
    \E sql_upper \in {to_uppercase(sql)} :
        \E kw \in {S_INSERT, S_UPDATE, S_DELETE, S_DROP, S_CREATE, S_ALTER, S_TRUNCATE} :
           starts_with(sql_upper, kw)

is_write_operation(sql) ==
    \E sql_upper \in {to_uppercase(trim(sql))} :
        \/ starts_with(sql_upper, S_INSERT)
        \/ starts_with(sql_upper, S_UPDATE)
        \/ starts_with(sql_upper, S_DELETE)
        \/ starts_with(sql_upper, S_DROP)
        \/ starts_with(sql_upper, S_CREATE)
        \/ starts_with(sql_upper, S_ALTER)
        \/ starts_with(sql_upper, S_TRUNCATE)

(***************************************************************************)
(* composite_storage.rs: dispatch of the mutation methods                  *)
(***************************************************************************)
\* is_virtual_table that forgets the alias of jhistory
is_virtual_table_without_alias(table_name) ==
    table_name \in {S_jhistory, S_transcripts, S_todos}

is_virtual_table(table_name) ==
    table_name \in {S_jhistory, S_codex_history, S_transcripts, S_todos}

\* the eleven mutation methods of StoreMut, IndexMut and AlterTable
MutationMethods ==
    {"insert_schema", "delete_schema", "append_data", "insert_data", "delete_data",
     "create_index", "drop_index",
     "rename_schema", "rename_column", "add_column", "drop_column"}

\* the test each mutation method makes before it delegates to JsonStorage:
\* TRUE when the call returns the StorageMsg error
mutation_rejected(method, table_name, new_table_name) ==
    IF method = "rename_schema"
    THEN is_virtual_table(table_name) \/ is_virtual_table(new_table_name)
    ELSE is_virtual_table(table_name)

(***************************************************************************)
(* Statements given to the program.  A statement is built from its parts   *)
(* so that what the SQL engine parses (op, table, scoped) is known         *)
(* independently of the text tests of the guard.                           *)
(*   op      what the engine's parser makes of the text, "Invalid" when    *)
(*           it rejects it                                                 *)
(*   table   the table the statement targets                               *)
(*   scoped  whether it has a row-scoping WHERE clause                     *)
(***************************************************************************)
S_SELECT == <<"S", "E", "L", "E", "C", "T">>

S_notes == <<"n", "o", "t", "e", "s">>

Body(kw, text, op, table, scoped) ==
    [kw |-> kw, text |-> text, op |-> op, table |-> table, scoped |-> scoped]

Bodies ==
    { \* DELETE FROM history
      Body(S_DELETE, <<"F", "R", "O", "M", " ", "h", "i", "s", "t", "o", "r", "y">>,
           "Delete", S_history, FALSE),
      \* DELETE FROM history WHERE id=1
      Body(S_DELETE, <<"F", "R", "O", "M", " ", "h", "i", "s", "t", "o", "r", "y", " ",
                       "W", "H", "E", "R", "E", " ", "i", "d", "=", "1">>,
           "Delete", S_history, TRUE),
      \* DELETE FROM notes WHERE id=1
      Body(S_DELETE, <<"F", "R", "O", "M", " ", "n", "o", "t", "e", "s", " ",
                       "W", "H", "E", "R", "E", " ", "i", "d", "=", "1">>,
           "Delete", S_notes, TRUE),
      \* DELETE FROM todos WHERE id=1
      Body(S_DELETE, <<"F", "R", "O", "M", " ", "t", "o", "d", "o", "s", " ",
                       "W", "H", "E", "R", "E", " ", "i", "d", "=", "1">>,
           "Delete", S_todos, TRUE),
      \* UPDATE history SET x=1
      Body(S_UPDATE, <<"h", "i", "s", "t", "o", "r", "y", " ", "S", "E", "T", " ",
                       "x", "=", "1">>,
           "Update", S_history, FALSE),
      \* UPDATE history SET x=1 WHERE id=1
      Body(S_UPDATE, <<"h", "i", "s", "t", "o", "r", "y", " ", "S", "E", "T", " ",
                       "x", "=", "1", " ", "W", "H", "E", "R", "E", " ", "i", "d", "=", "1">>,
           "Update", S_history, TRUE),
      \* UPDATE history SET x=' WHERE '
      Body(S_UPDATE, <<"h", "i", "s", "t", "o", "r", "y", " ", "S", "E", "T", " ",
                       "x", "=", "'", " ", "W", "H", "E", "R", "E", " ", "'">>,
           "Update", S_history, FALSE),
      \* INSERT INTO history VALUES (1)
      Body(S_INSERT, <<"I", "N", "T", "O", " ", "h", "i", "s", "t", "o", "r", "y", " ",
                       "V", "A", "L", "U", "E", "S", " ", "(", "1", ")">>,
           "Insert", S_history, FALSE),
      \* INSERT INTO notes VALUES (1)
      Body(S_INSERT, <<"I", "N", "T", "O", " ", "n", "o", "t", "e", "s", " ",
                       "V", "A", "L", "U", "E", "S", " ", "(", "1", ")">>,
           "Insert", S_notes, FALSE),
      \* INSERT INTO todos VALUES (1)
      Body(S_INSERT, <<"I", "N", "T", "O", " ", "t", "o", "d", "o", "s", " ",
                       "V", "A", "L", "U", "E", "S", " ", "(", "1", ")">>,
           "Insert", S_todos, FALSE),
      \* DROP TABLE history
      Body(S_DROP, <<"T", "A", "B", "L", "E", " ", "h", "i", "s", "t", "o", "r", "y">>,
           "DropTable", S_history, FALSE),
      \* DROP TABLE todos
      Body(S_DROP, <<"T", "A", "B", "L", "E", " ", "t", "o", "d", "o", "s">>,
           "DropTable", S_todos, FALSE),
      \* CREATE TABLE notes (id INT)
      Body(S_CREATE, <<"T", "A", "B", "L", "E", " ", "n", "o", "t", "e", "s", " ",
                       "(", "i", "d", " ", "I", "N", "T", ")">>,
           "CreateTable", S_notes, FALSE),
      \* ALTER TABLE history ADD COLUMN c INT
      Body(S_ALTER, <<"T", "A", "B", "L", "E", " ", "h", "i", "s", "t", "o", "r", "y", " ",
                      "A", "D", "D", " ", "C", "O", "L", "U", "M", "N", " ", "c", " ",
                      "I", "N", "T">>,
           "AlterTable", S_history, FALSE),
      \* TRUNCATE TABLE history
      Body(S_TRUNCATE, <<"T", "A", "B", "L", "E", " ", "h", "i", "s", "t", "o", "r", "y">>,
           "Invalid", S_history, FALSE),
      \* TRUNCATE TABLE history WHERE id=1
      Body(S_TRUNCATE, <<"T", "A", "B", "L", "E", " ", "h", "i", "s", "t", "o", "r", "y", " ",
                         "W", "H", "E", "R", "E", " ", "i", "d", "=", "1">>,
           "Invalid", S_history, FALSE),
      \* SELECT * FROM history
      Body(S_SELECT, <<"*", " ", "F", "R", "O", "M", " ", "h", "i", "s", "t", "o", "r", "y">>,
           "Select", S_history, FALSE) }

\* what separates the first keyword from the rest: a space, a line break,
\* or a comment (the engine's tokenizer treats a comment as whitespace)
Separators == {<<" ">>, <<"\n", "\t">>, <<"/", "*", "*", "/">>}

\* spellings: as written, or lower-cased behind leading whitespace
Spellings == {"plain", "lower"}

Spell(spelling, text) ==
    IF spelling = "lower" THEN <<" ", "\n">> \o to_lowercase(text) ELSE text

\* the statements: sql is the text the program is given
Statements ==
    { [sql   |-> Spell(sp, b.kw \o sep \o b.text),
       kw    |-> b.kw,
       op    |-> b.op,
       table |-> b.table,
       scoped |-> b.scoped] :
      b \in Bodies, sep \in Separators, sp \in Spellings }

\* what may precede a statement in the text given to execute: a comment, a
\* line comment, or an earlier read-only statement and a semicolon (the
\* engine's parser skips comments and executes every statement of the text)
Prefixes ==
    {<<"/", "*", "c", "*", "/", " ">>,
     <<"-", "-", "c", "\n">>,
     <<"S", "E", "L", "E", "C", "T", " ", "1", ";", " ">>}

\* the statements the engine accepts, each behind a prefix; kw is the first
\* keyword of the text
PrefixedStatements ==
    { [sql   |-> prefix \o b.kw \o <<" ">> \o b.text,
       kw    |-> IF Head(prefix) = "S" THEN S_SELECT ELSE b.kw,
       op    |-> b.op,
       table |-> b.table,
       scoped |-> b.scoped] :
      b \in {x \in Bodies : x.op # "Invalid"}, prefix \in Prefixes }

NoStatement == [sql |-> << >>, kw |-> << >>, op |-> "Invalid", table |-> None,
                scoped |-> FALSE]

\* the keywords that make a statement write-class
WriteKeywords == {S_INSERT, S_UPDATE, S_DELETE, S_DROP, S_CREATE, S_ALTER, S_TRUNCATE}

(***************************************************************************)
(* State                                                                   *)
(***************************************************************************)
VARIABLES
    files,          \* the file system: existing path -> content
    write_enabled,  \* SqlEngine.write_enabled
    backup_enabled, \* SqlEngine.safety_guard.backup_enabled
    options,        \* the SqlOptions the engine was constructed with
    call,           \* what the last call of execute / sql did
    store           \* what the last call of a CompositeStorage mutation method did

vars == <<files, write_enabled, backup_enabled, options, call, store>>

\* the files of the virtual tables present in the model
todos_entry == <<"t", "o", "d", "o", "s", "/", "w", "-", "a", "g", "e", "n", "t", "-", "a",
                 ".", "j", "s", "o", "n">>

transcripts_entry == <<"t", "r", "a", "n", "s", "c", "r", "i", "p", "t", "s", "/",
                       "s", "e", "s", "_", "1", ".", "j", "s", "o", "n", "l">>

\* the files a virtual table is scanned from
BackingFiles(table_name, fs) ==
    IF table_name \in {S_jhistory, S_codex_history} THEN {jhistory_file} \cap DOMAIN fs
    ELSE IF table_name \in {S_transcripts, S_todos}
         THEN {p \in DOMAIN fs : starts_with(p, table_name \o <<"/">>)}
    ELSE {}

\* fs with path holding content
WriteFile(fs, path, content) ==
    [p \in (DOMAIN fs) \cup {path} |-> IF p = path THEN content ELSE fs[p]]

\* fs without path
RemoveFile(fs, path) == [p \in (DOMAIN fs) \ {path} |-> fs[p]]

(***************************************************************************)
(* SafetyGuard::backup_table.  copy_ok is whether fs::copy succeeds; a     *)
(* failed copy is taken to leave the destination as it was.                *)
(***************************************************************************)
\* backup_table that keeps a backup that already exists
backup_table_keep_existing(enabled, table_name, fs, copy_ok) ==
    IF ~enabled THEN [result |-> "OkNone", path |-> None, files |-> fs]
    ELSE LET source_path == get_table_path(table_name, DOMAIN fs)
         IN  IF source_path = None
             THEN [result |-> "ErrSql", path |-> None, files |-> fs]
             ELSE IF source_path \notin DOMAIN fs
             THEN [result |-> "OkNone", path |-> None, files |-> fs]
             ELSE LET backup_path == create_backup_path(source_path)
                  IN  IF ~copy_ok
                      THEN [result |-> "ErrBackupFailed", path |-> None, files |-> fs]
                      ELSE [result |-> "OkSome", path |-> backup_path,
                            files  |-> IF backup_path \in DOMAIN fs THEN fs
                                       ELSE WriteFile(fs, backup_path, fs[source_path])]

backup_table(enabled, table_name, fs, copy_ok) ==
    IF ~enabled THEN [result |-> "OkNone", path |-> None, files |-> fs]
    ELSE LET source_path == get_table_path(table_name, DOMAIN fs)
         IN  IF source_path = None
             THEN [result |-> "ErrSql", path |-> None, files |-> fs]
             ELSE IF source_path \notin DOMAIN fs
             THEN [result |-> "OkNone", path |-> None, files |-> fs]
             ELSE LET backup_path == create_backup_path(source_path)
                  IN  IF ~copy_ok
                      THEN [result |-> "ErrBackupFailed", path |-> None, files |-> fs]
                      ELSE [result |-> "OkSome", path |-> backup_path,
                            files  |-> WriteFile(fs, backup_path, fs[source_path])]

(***************************************************************************)
(* SqlEngine::execute up to the call of the engine: the write-mode test,   *)
(* the safety check and the backup.  outcome is the error returned, or     *)
(* "proceed" when the statement goes on to the engine.                     *)
(***************************************************************************)
NotAttempted == [result |-> "NotAttempted", path |-> None]

\* the tests of the text, tabulated once for the statements of the model
SqlTexts == {st.sql : st \in Statements \cup PrefixedStatements}

is_write_operation_of == [sql \in SqlTexts |-> is_write_operation(sql)]

check_query_of == [sql \in SqlTexts |-> check_query(sql)]

extract_table_name_of == [sql \in SqlTexts |-> extract_table_name(sql)]

\* execute that makes the backup before it looks at the verdict
execute_guard_backup_first(sql, w_enabled, b_enabled, fs, copy_ok) ==
    LET is_write == is_write_operation_of[sql]
        t == extract_table_name_of[sql]
        b == IF t = None THEN [result |-> "NotAttempted", path |-> None, files |-> fs]
             ELSE backup_table(b_enabled, t, fs, copy_ok)
    IN  IF ~w_enabled /\ is_write
        THEN [outcome |-> "WriteNotAllowed", checked |-> FALSE, verdict |-> "none",
              backup |-> NotAttempted, files |-> fs]
        ELSE IF ~is_write
        THEN [outcome |-> "proceed", checked |-> FALSE, verdict |-> "none",
              backup |-> NotAttempted, files |-> fs]
        ELSE [outcome |-> IF check_query_of[sql] = "Dangerous"
                          THEN "DangerousOperation" ELSE "proceed",
              checked |-> TRUE, verdict |-> check_query_of[sql],
              backup |-> [result |-> b.result, path |-> b.path], files |-> b.files]

execute_guard(sql, w_enabled, b_enabled, fs, copy_ok) ==
    LET is_write == is_write_operation_of[sql]
    IN  IF ~w_enabled /\ is_write
        THEN [outcome |-> "WriteNotAllowed", checked |-> FALSE, verdict |-> "none",
              backup |-> NotAttempted, files |-> fs]
        ELSE IF ~is_write
        THEN [outcome |-> "proceed", checked |-> FALSE, verdict |-> "none",
              backup |-> NotAttempted, files |-> fs]
        ELSE IF check_query_of[sql] = "Dangerous"
        THEN [outcome |-> "DangerousOperation", checked |-> TRUE, verdict |-> "Dangerous",
              backup |-> NotAttempted, files |-> fs]
        ELSE IF extract_table_name_of[sql] = None
        THEN [outcome |-> "proceed", checked |-> TRUE, verdict |-> "Safe",
              backup |-> NotAttempted, files |-> fs]
        ELSE LET b == backup_table(b_enabled, extract_table_name_of[sql], fs, copy_ok)
             IN  \* the result of backup_table is only looked at to print the path
                 [outcome |-> "proceed", checked |-> TRUE, verdict |-> "Safe",
                  backup |-> [result |-> b.result, path |-> b.path], files |-> b.files]

(***************************************************************************)
(* JsonStorage, the physical store the adapter delegates to: the file of a *)
(* table is <name>.jsonl or <name>.json in the data directory.  Every call *)
(* may fail and leave the files as they are.  The index and alter methods  *)
(* are not supported by JsonStorage and only fail.                         *)
(***************************************************************************)
DataPath(table_name, fs) ==
    IF (table_name \o S_dot_jsonl) \in DOMAIN fs THEN table_name \o S_dot_jsonl
    ELSE IF (table_name \o S_dot_json) \in DOMAIN fs THEN table_name \o S_dot_json
    ELSE None

JsonStorageOutcomes(method, table_name, fs) ==
    LET path == DataPath(table_name, fs)
    IN  {[ok |-> FALSE, files |-> fs]}
        \cup (IF method = "insert_schema" /\ path = None
              THEN {[ok |-> TRUE, files |-> WriteFile(fs, table_name \o S_dot_jsonl, 0)]}
              ELSE {})
        \cup (IF method = "delete_schema" /\ path # None
              THEN {[ok |-> TRUE, files |-> RemoveFile(fs, path)]}
              ELSE {})
        \cup (IF method \in {"append_data", "insert_data", "delete_data"} /\ path # None
              THEN {[ok |-> TRUE, files |-> WriteFile(fs, path, c)] : c \in Contents}
              ELSE {})

\* the text of the GlueError::StorageMsg a mutation method returns for a
\* virtual table
virtual_table_error(method) ==
    CASE method = "insert_schema" ->
           <<"C","a","n","n","o","t"," ","c","r","e","a","t","e"," ","s","c","h","e","m","a"," ",
             "f","o","r"," ","v","i","r","t","u","a","l"," ","t","a","b","l","e">>
      [] method = "delete_schema" ->
           <<"C","a","n","n","o","t"," ","d","e","l","e","t","e"," ","v","i","r","t","u","a","l"," ",
             "t","a","b","l","e"," ","s","c","h","e","m","a">>
      [] method \in {"append_data", "insert_data", "delete_data"} ->
           <<"W","r","i","t","e"," ","o","p","e","r","a","t","i","o","n","s"," ","o","n"," ",
             "v","i","r","t","u","a","l"," ","m","u","l","t","i","-","f","i","l","e"," ",
             "t","a","b","l","e","s"," ","n","o","t"," ","y","e","t"," ",
             "s","u","p","p","o","r","t","e","d">>
      [] method = "create_index" ->
           <<"C","a","n","n","o","t"," ","c","r","e","a","t","e"," ","i","n","d","e","x"," ",
             "o","n"," ","v","i","r","t","u","a","l"," ","t","a","b","l","e">>
      [] method = "drop_index" ->
           <<"C","a","n","n","o","t"," ","d","r","o","p"," ","i","n","d","e","x"," ",
             "o","n"," ","v","i","r","t","u","a","l"," ","t","a","b","l","e">>
      [] method = "rename_schema" ->
           <<"C","a","n","n","o","t"," ","r","e","n","a","m","e"," ",
             "v","i","r","t","u","a","l"," ","t","a","b","l","e">>
      [] method \in {"rename_column", "add_column", "drop_column"} ->
           <<"C","a","n","n","o","t"," ","a","l","t","e","r"," ",
             "v","i","r","t","u","a","l"," ","t","a","b","l","e">>

NoStore(fs) == [method |-> "none", table_name |-> None, new_table_name |-> None,
                result |-> "none", delegated |-> FALSE, message |-> << >>, pre |-> fs]

\* one call of a mutation method of CompositeStorage: the set of
\* (record of the call, files after it)
CompositeMutation(method, table_name, new_table_name, fs) ==
    IF mutation_rejected(method, table_name, new_table_name)
    THEN {[store |-> [method |-> method, table_name |-> table_name,
                      new_table_name |-> new_table_name,
                      result |-> "Err", delegated |-> FALSE,
                      message |-> virtual_table_error(method), pre |-> fs],
           files |-> fs]}
    ELSE {[store |-> [method |-> method, table_name |-> table_name,
                      new_table_name |-> new_table_name,
                      result |-> IF o.ok THEN "Ok" ELSE "Err", delegated |-> TRUE,
                      message |-> << >>, pre |-> fs],
           files |-> o.files] : o \in JsonStorageOutcomes(method, table_name, fs)}

(***************************************************************************)
(* glue.execute(sql): the engine parses the text, looks the table up and   *)
(* calls the mutation method of the storage that the statement needs.      *)
(***************************************************************************)
MethodOf(op) ==
    CASE op = "Insert"      -> "append_data"
      [] op = "Update"      -> "insert_data"
      [] op = "Delete"      -> "delete_data"
      [] op = "DropTable"   -> "delete_schema"
      [] op = "CreateTable" -> "insert_schema"
      [] op = "AlterTable"  -> "add_column"

\* fetch_schema finds the table: a virtual table always, a physical one
\* when its file exists
TableExists(table_name, fs) ==
    is_virtual_table(table_name) \/ DataPath(table_name, fs) # None

GlueExecute(st, fs) ==
    IF st.op = "Invalid"
    THEN {[result |-> "Sql", store |-> NoStore(fs), files |-> fs]}
    ELSE IF st.op = "Select"
    THEN {[result |-> IF TableExists(st.table, fs) THEN "Ok" ELSE "Sql",
           store |-> NoStore(fs), files |-> fs]}
    ELSE IF (st.op = "CreateTable") = TableExists(st.table, fs)
    THEN {[result |-> "Sql", store |-> NoStore(fs), files |-> fs]}
    ELSE {[result |-> IF m.store.result = "Ok" THEN "Ok" ELSE "Sql",
           store |-> m.store, files |-> m.files] :
          m \in CompositeMutation(MethodOf(st.op), st.table, None, fs)}

(***************************************************************************)
(* Actions                                                                 *)
(***************************************************************************)
NoCall(fs) ==
    [entry |-> "none", st |-> NoStatement, write_enabled |-> FALSE, dry_run |-> FALSE,
     outcome |-> "none", checked |-> FALSE, verdict |-> "none", backup |-> NotAttempted,
     engine |-> FALSE, echoed |-> FALSE, result |-> "none", pre |-> fs]

\* the tables the data directory may hold as single files
PhysicalTables == {S_history, S_notes}

VirtualTables == {S_jhistory, S_codex_history, S_transcripts, S_todos}

Init ==
    /\ \E present \in SUBSET {history_file, S_notes \o S_dot_jsonl} :
          files = [p \in present \cup {jhistory_file, todos_entry, transcripts_entry}
                     |-> 1]
    /\ write_enabled = FALSE
    /\ backup_enabled = TRUE
    /\ options = [write_enabled |-> FALSE, dry_run |-> FALSE]
    /\ call = NoCall(files)
    /\ store = NoStore(files)

\* no call is being observed: the previous one has returned to its caller
Idle == call.entry = "none" /\ store.method = "none"

\* SqlEngine::new(config, options): dry_run is not kept by the engine
New(opts) ==
    /\ Idle
    /\ write_enabled' = opts.write_enabled
    /\ backup_enabled' = TRUE
    /\ options' = opts
    /\ call' = NoCall(files)
    /\ store' = NoStore(files)
    /\ UNCHANGED files

\* the body of SqlEngine::execute on an engine with the given write mode
DoExecute(entry, st, w_enabled, dry, copy_ok) ==
    LET g == execute_guard(st.sql, w_enabled, backup_enabled, files, copy_ok)
        c == [entry |-> entry, st |-> st, write_enabled |-> w_enabled, dry_run |-> dry,
              outcome |-> g.outcome, checked |-> g.checked, verdict |-> g.verdict,
              backup |-> g.backup, engine |-> FALSE, echoed |-> FALSE,
              result |-> g.outcome, pre |-> files]
    IN  IF g.outcome # "proceed"
        THEN /\ call' = c
             /\ store' = NoStore(files)
             /\ files' = g.files
        ELSE \E o \in GlueExecute(st, g.files) :
                /\ call' = [c EXCEPT !.engine = TRUE, !.result = o.result]
                /\ store' = o.store
                /\ files' = o.files

\* engine.execute(sql) on the engine as constructed
Execute(st, copy_ok) ==
    /\ Idle
    /\ DoExecute("execute", st, write_enabled, options.dry_run, copy_ok)
    /\ UNCHANGED <<write_enabled, backup_enabled, options>>

\* the preview test matching the keyword without upper-casing the text
is_dry_run_preview_case_sensitive(dry_run, query_str) ==
    dry_run /\ \E kw \in {S_INSERT, S_UPDATE, S_DELETE, S_DROP, S_CREATE, S_ALTER,
                           S_TRUNCATE} : starts_with(trim(query_str), kw)

\* the test of commands::sql that turns a call into a preview
is_dry_run_preview(dry_run, query_str) == dry_run /\ is_write_operation_of[query_str]

\* commands::sql(config, query_str, write_enabled, dry_run, format): builds
\* an engine of its own from the two flags, previews or executes, and drops it
CommandSql(st, w_enabled, dry_run, copy_ok) ==
    /\ Idle
    /\ UNCHANGED <<write_enabled, backup_enabled, options>>
    /\ IF is_dry_run_preview(dry_run, st.sql)
       THEN /\ call' = [NoCall(files) EXCEPT !.entry = "sql", !.st = st,
                           !.write_enabled = w_enabled, !.dry_run = dry_run,
                           !.echoed = TRUE, !.result = "Ok"]
            /\ store' = NoStore(files)
            /\ UNCHANGED files
       ELSE DoExecute("sql", st, w_enabled, dry_run, copy_ok)

\* a call of a mutation method of CompositeStorage, as the engine makes it
StoreMutate(method, table_name, new_table_name) ==
    /\ Idle
    /\ \E m \in CompositeMutation(method, table_name, new_table_name, files) :
          /\ store' = m.store
          /\ files' = m.files
    /\ call' = NoCall(files)
    /\ UNCHANGED <<write_enabled, backup_enabled, options>>

\* the call returns to its caller; what it did is no longer observed
Return ==
    /\ ~Idle
    /\ call' = NoCall(files)
    /\ store' = NoStore(files)
    /\ UNCHANGED <<files, write_enabled, backup_enabled, options>>

Next ==
    \/ Return
    \/ \E opts \in [write_enabled : BOOLEAN, dry_run : BOOLEAN] : New(opts)
    \/ \E st \in Statements, copy_ok \in BOOLEAN : Execute(st, copy_ok)
    \/ \E st \in Statements, w \in BOOLEAN, d \in BOOLEAN, copy_ok \in BOOLEAN :
          CommandSql(st, w, d, copy_ok)
    \/ \E method \in MutationMethods \ {"rename_schema"},
          t \in PhysicalTables \cup VirtualTables :
          StoreMutate(method, t, None)
    \/ \E t \in PhysicalTables \cup VirtualTables,
          n \in PhysicalTables \cup VirtualTables :
          StoreMutate("rename_schema", t, n)

Spec == Init /\ [][Next]_vars

(***************************************************************************)
(* Properties                                                              *)
(***************************************************************************)
\* the call went through SqlEngine::execute
Executed == call.entry \in {"execute", "sql"} /\ ~call.echoed

\* the statement is write-class by its first keyword
WriteClass(st) == st.kw \in WriteKeywords

\* the file of the physical table the statement targets, as it was before
\* the call; None when the target is virtual or has no file
TargetFile ==
    IF is_virtual_table(call.st.table) \/ call.st.op = "Invalid" THEN None
    ELSE DataPath(call.st.table, call.pre)

\* the claim's backup path: ".bak" appended to the path of the table file
DotBak(path) == path \o <<".", "b", "a", "k">>

\* the backup files of a table file that exist
BackupsOf(path, fs) ==
    {p \in DOMAIN fs : p # path /\ starts_with(p, path) /\ extension(p) = S_bak}

\* C1: in execute with write mode enabled, when the backup attempted for a
\* non-dangerous write-class statement fails, the statement is not passed to
\* the engine, execute returns a failure and the files are left unchanged.
C1_BackupFailureAbortsWrite ==
    (/\ Executed
     /\ call.write_enabled
     /\ call.backup.result \in {"ErrSql", "ErrBackupFailed"})
    => (/\ ~call.engine
        /\ call.result \notin {"Ok", "none"}
        /\ files = call.pre)

\* C2: with write mode disabled, execute on a statement whose first keyword
\* is INSERT, UPDATE, DELETE, DROP, CREATE, ALTER or TRUNCATE returns
\* WriteNotAllowed without the safety check, a backup or the engine, and no
\* file changes.
C2_WriteDisabledRejects ==
    (Executed /\ ~call.write_enabled /\ WriteClass(call.st))
    => (/\ call.result = "WriteNotAllowed"
        /\ ~call.checked
        /\ call.backup = NotAttempted
        /\ ~call.engine
        /\ store.method = "none"
        /\ files = call.pre)

\* a lower-case INSERT behind leading whitespace was rejected while the
\* history file exists
C2_Witness ==
    /\ Executed
    /\ ~call.write_enabled
    /\ call.st.kw = S_INSERT
    /\ call.st.sql[1] = " "
    /\ history_file \in DOMAIN call.pre
    /\ call.result = "WriteNotAllowed"

\* C3: with write mode and backups enabled, whenever a write-class statement
\* reaches the engine and targets a physical table whose file exists, a
\* backup copy of that file was completed earlier in the same call.
C3_BackupBeforeEveryWrite ==
    (/\ Executed
     /\ call.write_enabled
     /\ backup_enabled
     /\ call.engine
     /\ WriteClass(call.st)
     /\ TargetFile # None)
    => (/\ call.backup.result = "OkSome"
        /\ call.backup.path = DotBak(TargetFile))

\* C4: with write mode enabled, when check_query classifies the statement
\* as Dangerous, execute returns DangerousOperation before any backup is
\* attempted and before the engine is invoked, and the files are as before.
C4_DangerousAborts ==
    (/\ Executed
     /\ call.write_enabled
     /\ check_query_of[call.st.sql] = "Dangerous")
    => (/\ call.result = "DangerousOperation"
        /\ call.backup = NotAttempted
        /\ ~call.engine
        /\ store.method = "none"
        /\ files = call.pre)

\* an unscoped DELETE on the existing history file was rejected as dangerous
C4_Witness ==
    /\ Executed
    /\ call.write_enabled
    /\ call.st.kw = S_DELETE
    /\ call.st.op = "Delete"
    /\ ~call.st.scoped
    /\ history_file \in DOMAIN call.pre
    /\ call.result = "DangerousOperation"

\* C5: for every virtual table and every mutation method of
\* CompositeStorage the call returns an error, is not delegated to the
\* physical store, and every backing file of the table is unchanged.
C5_VirtualTablesReadOnly ==
    (/\ store.method \in MutationMethods
     /\ (store.table_name \in VirtualTables \/ store.new_table_name \in VirtualTables))
    => (/\ store.result = "Err"
        /\ ~store.delegated
        /\ \A t \in VirtualTables :
              /\ BackingFiles(t, files) = BackingFiles(t, store.pre)
              /\ \A p \in BackingFiles(t, store.pre) : files[p] = store.pre[p])

\* a mutation of the alias codex_history was rejected while its file exists
C5_Witness ==
    /\ store.method = "delete_data"
    /\ store.table_name = S_codex_history
    /\ BackingFiles(S_codex_history, store.pre) # {}
    /\ store.result = "Err"

\* C6: for every statement whose first keyword is DELETE or UPDATE,
\* check_query returns Dangerous if the normalized text does not contain
\* " WHERE " and Safe if it contains it anywhere.
C6_WhereHeuristic ==
    (call.checked /\ call.st.kw \in {S_DELETE, S_UPDATE})
    => ((call.verdict = "Dangerous")
           <=> ~contains(normalize_sql(call.st.sql), S_SP_WHERE_SP))

\* C7: check_query returns Dangerous for every statement whose first keyword
\* is TRUNCATE, so with write mode enabled no TRUNCATE reaches the engine.
C7_TruncateAlwaysDangerous ==
    (Executed /\ call.write_enabled /\ call.st.kw = S_TRUNCATE)
    => (call.verdict = "Dangerous" /\ ~call.engine)

\* C8: in commands::sql with dry_run set, a write-class statement is echoed
\* and the call returns success without calling execute: no safety check, no
\* backup, no engine, no file change, whether or not write mode is enabled.
C8_DryRunPreview ==
    (call.entry = "sql" /\ call.dry_run /\ WriteClass(call.st))
    => (/\ call.echoed
        /\ call.result = "Ok"
        /\ ~call.checked
        /\ call.backup = NotAttempted
        /\ ~call.engine
        /\ store.method = "none"
        /\ files = call.pre)

\* a lower-case scoped DELETE on the existing history file was previewed
\* with both --dry-run and --write given
C8_Witness ==
    /\ call.entry = "sql"
    /\ call.dry_run
    /\ call.write_enabled
    /\ call.st.kw = S_DELETE
    /\ call.st.scoped
    /\ call.st.sql[1] = " "
    /\ history_file \in DOMAIN call.pre
    /\ call.echoed

\* C9: an engine constructed with SqlOptions.dry_run = TRUE never modifies
\* data: execute on a write-class statement does not pass it to the engine
\* and changes no file, also when write_enabled is TRUE.
C9_DryRunEngineNeverWrites ==
    (call.entry = "execute" /\ call.dry_run /\ WriteClass(call.st))
    => (~call.engine /\ files = call.pre)

\* C10: after execute of a Safe write on a physical table whose file exists,
\* exactly one backup file exists for the table, at the path of the table
\* file with ".bak" appended, holding the content the table file had before
\* the call.
C10_ExactlyOneBackup ==
    (/\ Executed
     /\ call.checked
     /\ call.verdict = "Safe"
     /\ TargetFile # None)
    => (/\ BackupsOf(TargetFile, files) = {DotBak(TargetFile)}
        /\ files[DotBak(TargetFile)] = call.pre[TargetFile])

\* the table has no backing file: the configured file of history and of
\* stats, <name>.jsonl or <name>.json of any other table
BackingFileAbsent(table_name, fs) ==
    IF table_name = S_history THEN history_file \notin DOMAIN fs
    ELSE IF table_name = S_stats THEN stats_file \notin DOMAIN fs
    ELSE /\ (table_name \o S_dot_jsonl) \notin DOMAIN fs
         /\ (table_name \o S_dot_json) \notin DOMAIN fs

\* the backup files that exist
BakFiles(fs) == {p \in DOMAIN fs : extension(p) = S_bak}

\* C11: whenever backup_table is called while backups are disabled or the
\* table has no backing file, for any table name, it returns Ok(None) and no
\* backup file is created or modified.
C11_BackupNoneWhenNothingToCopy ==
    (/\ Executed
     /\ call.backup.result # "NotAttempted"
     /\ \/ ~backup_enabled
        \/ BackingFileAbsent(extract_table_name_of[call.st.sql], call.pre))
    => (/\ call.backup.result = "OkNone"
        /\ \A p \in BakFiles(files) : p \in DOMAIN call.pre /\ files[p] = call.pre[p])

\* the paths a physical table of the model may have its file at
TableFiles ==
    {history_file, stats_file}
    \cup {t \o ext : t \in PhysicalTables, ext \in {S_dot_jsonl, S_dot_json}}

\* the step is a call of execute that made a backup before writing the
\* table whose file is path
BackupMadeFor(path) ==
    /\ call'.entry \in {"execute", "sql"}
    /\ call'.backup.result = "OkSome"
    /\ DataPath(call'.st.table, files) = path

\* the backup files kept for the table file at path: the siblings named
\* path.<anything ending in bak>
SiblingBackups(path, fs) ==
    {p \in DOMAIN fs : starts_with(p, path \o <<".">>) /\ extension(p) = S_bak}

C12_Step ==
    \A path \in TableFiles :
       /\ Cardinality(SiblingBackups(path, files')) <= 1
       /\ IF BackupMadeFor(path)
          THEN /\ SiblingBackups(path, files') = {DotBak(path)}
               /\ files'[DotBak(path)] = files[path]
          ELSE /\ SiblingBackups(path, files') = SiblingBackups(path, files)
               /\ \A q \in SiblingBackups(path, files) : files'[q] = files[q]

DigitVal(c) ==
    (CHOOSE n \in 1..10 : <<"0", "1", "2", "3", "4", "5", "6", "7", "8", "9">>[n] = c) - 1

\* a < b for magnitudes
MagLess(a0, b0) ==
    \E a \in {a0}, b \in {b0} :
       \/ Len(a) < Len(b)
       \/ /\ Len(a) = Len(b)
          /\ \E i \in 1..Len(a) :
                /\ SubSeq(a, 1, i - 1) = SubSeq(b, 1, i - 1)
                /\ DigitVal(a[i]) < DigitVal(b[i])

I64(neg, mag) == [neg |-> neg, mag |-> mag]

\* i64::MAX and the magnitude of i64::MIN
I64MaxMag == <<"9", "2", "2", "3", "3", "7", "2", "0", "3", "6", "8", "5", "4", "7", "7", "5", "8", "0", "7">>

I64MinMag == <<"9", "2", "2", "3", "3", "7", "2", "0", "3", "6", "8", "5", "4", "7", "7", "5", "8", "0", "8">>

\* Option::None of an Option<i64>
NoneI64 == [neg |-> FALSE, mag |-> << >>]

\* the magnitude fits an i64 of the given sign
FitsI64(neg, mag) ==
    IF neg THEN ~MagLess(I64MinMag, mag) ELSE ~MagLess(I64MaxMag, mag)

\* i64::saturating_mul(1000)
saturating_mul_1000(x0) ==
    The({ IF x.mag = <<"0">> THEN x
          ELSE The({ IF FitsI64(x.neg, m) THEN I64(x.neg, m)
                     ELSE IF x.neg THEN I64(TRUE, I64MinMag) ELSE I64(FALSE, I64MaxMag)
                     : m \in {x.mag \o <<"0", "0", "0">>} })
          : x \in {x0} })

\* x / 1000 of i64: the quotient truncated toward zero
div_1000(x0) ==
    The({ IF Len(x.mag) <= 3 THEN I64(FALSE, <<"0">>)
          ELSE I64(x.neg, SubSeq(x.mag, 1, Len(x.mag) - 3))
          : x \in {x0} })

\* str::parse::<i64>: an optional sign, then one or more digits, in range
parse_i64(s0) ==
    The({ The({ IF body = << >> \/ \E i \in 1..Len(body) : body[i] \notin DigitChars
                THEN NoneI64
                ELSE The({ IF mag = <<"0">> THEN I64(FALSE, mag)
                           ELSE IF FitsI64(s[1] = "-", mag) THEN I64(s[1] = "-", mag)
                           ELSE NoneI64
                           : mag \in {IF \A i \in 1..Len(body) : body[i] = "0"
                                      THEN <<"0">>
                                      ELSE SubSeq(body,
                                                  CHOOSE i \in 1..Len(body) :
                                                     /\ body[i] # "0"
                                                     /\ \A j \in 1..(i - 1) : body[j] = "0",
                                                  Len(body))} })
                : body \in {IF s # << >> /\ s[1] \in {"+", "-"} THEN Tail(s) ELSE s} })
          : s \in {s0} })

(***************************************************************************)
(* serde_json::Value and gluesql Value.  A string is a sequence of         *)
(* characters, an array a sequence of values, an object a function from    *)
(* its keys to values.  A number is as serde_json keeps it: PosInt (u64),  *)
(* NegInt (i64 below zero) or Float.                                       *)
(***************************************************************************)
JNull == [t |-> "Null"]

JBool(b) == [t |-> "Bool", b |-> b]

JPosInt(mag) == [t |-> "Number", k |-> "PosInt", mag |-> mag]

JNegInt(mag) == [t |-> "Number", k |-> "NegInt", mag |-> mag]

JFloat(text) == [t |-> "Number", k |-> "Float", mag |-> text]

JString(s) == [t |-> "String", s |-> s]

JArray(a) == [t |-> "Array", a |-> a]

JObject(o) == [t |-> "Object", o |-> o]

\* the object without fields
EmptyMap == [k \in {} |-> JNull]

\* serde_json::Number::as_i64
as_i64(n) ==
    IF n.k = "PosInt" THEN (IF FitsI64(FALSE, n.mag) THEN I64(FALSE, n.mag) ELSE NoneI64)
    ELSE IF n.k = "NegInt" THEN I64(TRUE, n.mag)
    ELSE NoneI64

\* json_value_to_glue_value; as_f64 is Some for every number that is not
\* an i64, so the Value::Str branch is not taken
RECURSIVE json_value_to_glue_value(_)
json_value_to_glue_value(value0) ==
    The({ CASE value.t = "Null"   -> [t |-> "Null"]
            [] value.t = "Bool"   -> [t |-> "Bool", b |-> value.b]
            [] value.t = "Number" ->
                 IF as_i64(value) # NoneI64
                 THEN [t |-> "I64", i |-> as_i64(value)]
                 ELSE [t |-> "F64", f |-> value.mag]
            [] value.t = "String" -> [t |-> "Str", s |-> value.s]
            [] value.t = "Array"  ->
                 [t |-> "List",
                  l |-> [i \in 1..Len(value.a) |-> json_value_to_glue_value(value.a[i])]]
            [] value.t = "Object" ->
                 [t |-> "Map",
                  m |-> [k \in DOMAIN value.o |-> json_value_to_glue_value(value.o[k])]]
          : value \in {value0} })

\* glue_value_to_json that writes an integer as a string
RECURSIVE glue_value_to_json_int_as_string(_)
glue_value_to_json_int_as_string(value0) ==
    The({ CASE value.t = "Null" -> JNull
            [] value.t = "Bool" -> JBool(value.b)
            [] value.t = "I64"  -> JString((IF value.i.neg THEN <<"-">> ELSE << >>)
                                           \o value.i.mag)
            [] value.t = "F64"  -> JFloat(value.f)
            [] value.t = "Str"  -> JString(value.s)
            [] value.t = "Map"  ->
                 JObject([k \in DOMAIN value.m |-> glue_value_to_json_int_as_string(value.m[k])])
            [] value.t = "List" ->
                 JArray([i \in 1..Len(value.l) |-> glue_value_to_json_int_as_string(value.l[i])])
          : value \in {value0} })

\* glue_value_to_json on the variants json_value_to_glue_value produces;
\* the f64 of the model is finite, so Number::from_f64 is Some
RECURSIVE glue_value_to_json(_)
glue_value_to_json(value0) ==
    The({ CASE value.t = "Null" -> JNull
            [] value.t = "Bool" -> JBool(value.b)
            [] value.t = "I64"  -> IF value.i.neg THEN JNegInt(value.i.mag)
                                   ELSE JPosInt(value.i.mag)
            [] value.t = "F64"  -> JFloat(value.f)
            [] value.t = "Str"  -> JString(value.s)
            [] value.t = "Map"  ->
                 JObject([k \in DOMAIN value.m |-> glue_value_to_json(value.m[k])])
            [] value.t = "List" ->
                 JArray([i \in 1..Len(value.l) |-> glue_value_to_json(value.l[i])])
          : value \in {value0} })

(***************************************************************************)
(* composite_storage.rs: the row converters                                *)
(***************************************************************************)
S_agent_delim == <<"-", "a", "g", "e", "n", "t", "-">>

S_unknown == <<"u", "n", "k", "n", "o", "w", "n">>

S_ses_ == <<"s", "e", "s", "_">>

\* str::strip_suffix, None when s does not end with the suffix
strip_suffix(s0, suffix0) ==
    The({ IF Len(s) >= Len(x) /\ SubSeq(s, Len(s) - Len(x) + 1, Len(s)) = x
          THEN SubSeq(s, 1, Len(s) - Len(x)) ELSE None
          : s \in {s0}, x \in {suffix0} })

\* str::strip_prefix, None when s does not start with the prefix
strip_prefix(s0, prefix0) ==
    The({ IF starts_with(s, x) THEN SubSeq(s, Len(x) + 1, Len(s)) ELSE None
          : s \in {s0}, x \in {prefix0} })

\* Option::unwrap_or
unwrap_or(opt, default) == IF opt = None THEN default ELSE opt

\* parse_todo_filename that splits at the last "-agent-"
parse_todo_filename_rfind(filename) ==
    The({ The({ IF occ # {}
                THEN The({ [workspace_id |-> SubSeq(name, 1, idx),
                            agent_id     |-> SubSeq(name, idx + 7 + 1, Len(name))]
                           : idx \in {CHOOSE i \in occ : \A j \in occ : j <= i} })
                ELSE [workspace_id |-> name, agent_id |-> S_unknown]
                : occ \in {Occurrences(name, S_agent_delim)} })
          : name \in {unwrap_or(strip_suffix(filename, S_dot_json), filename)} })

parse_todo_filename(filename) ==
    The({ The({ IF idx # -1
                THEN [workspace_id |-> SubSeq(name, 1, idx),
                      agent_id     |-> SubSeq(name, idx + 7 + 1, Len(name))]
                ELSE [workspace_id |-> name, agent_id |-> S_unknown]
                : idx \in {find(name, S_agent_delim)} })
          : name \in {unwrap_or(strip_suffix(filename, S_dot_json), filename)} })

VStr(s) == [t |-> "Str", s |-> s]

VI64(i) == [t |-> "I64", i |-> i]

\* Value::to_string of serde_json for the values that are not containers
json_to_string(value) ==
    CASE value.t = "Null"   -> <<"n", "u", "l", "l">>
      [] value.t = "Bool"   -> IF value.b THEN <<"t", "r", "u", "e">>
                               ELSE <<"f", "a", "l", "s", "e">>
      [] value.t = "Number" -> (IF value.k = "NegInt" THEN <<"-">> ELSE << >>) \o value.mag
      [] value.t = "String" -> <<"\"">> \o value.s \o <<"\"">>

\* json_value_as_string: None for null
json_value_as_string(value) ==
    IF value.t = "String" THEN value.s
    ELSE IF value.t = "Null" THEN None
    ELSE json_to_string(value)

\* json_value_as_i64
json_value_as_i64(value) ==
    IF value.t = "Number" THEN as_i64(value)
    ELSE IF value.t = "String" THEN parse_i64(value.s)
    ELSE NoneI64

\* 10_000_000_000
TenBillionMag == <<"1", "0", "0", "0", "0", "0", "0", "0", "0", "0", "0">>

normalize_ts_seconds(raw_ts) ==
    IF ~raw_ts.neg /\ MagLess(TenBillionMag, raw_ts.mag) THEN div_1000(raw_ts) ELSE raw_ts

\* the six columns jhistory_json_to_data_row writes itself
JhistoryColumns == {"display", "timestamp", "session_id", "sessionId", "text", "ts"}

\* obj.get(first).or_else(|| obj.get(second)).and_then(json_value_as_string)
\*    .unwrap_or_default()
first_present_string(obj, first, second) ==
    IF first \in DOMAIN obj THEN unwrap_or(json_value_as_string(obj[first]), << >>)
    ELSE IF second \in DOMAIN obj THEN unwrap_or(json_value_as_string(obj[second]), << >>)
    ELSE << >>

\* the row of (text, session_id, ts_seconds) and the extra fields of obj
jhistory_row(obj, text, session_id, ts_seconds) ==
    [k \in JhistoryColumns \cup DOMAIN obj |->
        CASE k \in {"display", "text"}          -> VStr(text)
          [] k \in {"session_id", "sessionId"}  -> VStr(session_id)
          [] k = "ts"                           -> VI64(ts_seconds)
          [] k = "timestamp"                    -> VI64(saturating_mul_1000(ts_seconds))
          [] OTHER                              -> json_value_to_glue_value(obj[k])]

\* ts_seconds of jhistory_json_to_data_row: the integer of "ts" as it is,
\* else the integer of "timestamp" normalized, else 0
jhistory_ts_seconds(obj) ==
    The({ IF from_ts # NoneI64 THEN from_ts
          ELSE The({ IF from_timestamp # NoneI64
                     THEN normalize_ts_seconds(from_timestamp)
                     ELSE I64(FALSE, <<"0">>)
                     : from_timestamp \in {IF "timestamp" \in DOMAIN obj
                                           THEN json_value_as_i64(obj["timestamp"])
                                           ELSE NoneI64} })
          : from_ts \in {IF "ts" \in DOMAIN obj THEN json_value_as_i64(obj["ts"])
                         ELSE NoneI64} })

\* jhistory_json_to_data_row that reads display before text
jhistory_json_to_data_row_display_first(json) ==
    IF json.t # "Object" THEN [some |-> FALSE]
    ELSE The({ [some |-> TRUE,
                row  |-> jhistory_row(obj, first_present_string(obj, "display", "text"),
                                      first_present_string(obj, "session_id", "sessionId"),
                                      jhistory_ts_seconds(obj))]
               : obj \in {json.o} })

\* jhistory_json_to_data_row: None when the value is not an object
jhistory_json_to_data_row(json) ==
    IF json.t # "Object" THEN [some |-> FALSE]
    ELSE The({ [some |-> TRUE,
                row  |-> jhistory_row(obj, first_present_string(obj, "text", "display"),
                                      first_present_string(obj, "session_id", "sessionId"),
                                      jhistory_ts_seconds(obj))]
               : obj \in {json.o} })

(***************************************************************************)
(* The converters applied to values drawn from bounded sets                *)
(***************************************************************************)
\* arrays have at most MaxItems elements
MaxItems == 1

\* 2^63 is a u64 that is no i64; 1.5 is a float
JsonAtoms ==
    {JNull, JBool(TRUE), JString(<<"x">>), JPosInt(<<"0">>), JNegInt(<<"1">>),
     JPosInt(I64MaxMag), JNegInt(I64MinMag), JPosInt(I64MinMag),
     JFloat(<<"1", ".", "5">>)}

\* the arrays of at most MaxItems elements and the objects of keys a, b
\* whose elements are in V
Containers(V) ==
    {JArray(a) : a \in UNION {[1..n -> V] : n \in 0..MaxItems}}
    \cup {JObject(o) : o \in UNION {[K -> V] : K \in SUBSET {"a", "b"}}}

\* values nested up to two containers deep
JsonValues == JsonAtoms \cup Containers(JsonAtoms \cup Containers(JsonAtoms))

\* file names given to parse_todo_filename
TodoFilenames ==
    {<<"a", "b", "c", "1", "2", "3", "-", "a", "g", "e", "n", "t", "-", "d", "e", "f", "4", "5", "6", ".", "j", "s", "o", "n">>,
     <<"s", "i", "m", "p", "l", "e", ".", "j", "s", "o", "n">>,
     <<"a", "l", "p", "h", "a", "-", "a", "g", "e", "n", "t", "-", "b", "e", "t", "a", ".", "j", "s", "o", "n">>,
     <<"a", "-", "a", "g", "e", "n", "t", "-", "b", "-", "a", "g", "e", "n", "t", "-", "c", ".", "j", "s", "o", "n">>,
     <<"-", "a", "g", "e", "n", "t", "-", ".", "j", "s", "o", "n">>,
     <<"x", "-", "a", "g", "e", "n", "t", "-", "y">>,
     <<"x", ".", "j", "s", "o", "n", ".", "j", "s", "o", "n">>,
     <<"a", "-", "a", "g", "e", "n", "t", ".", "j", "s", "o", "n">>,
     <<"a", "-", "a", "g", "e", "n", "t", "-", "a", "g", "e", "n", "t", "-", "b", ".", "j", "s", "o", "n">>,
     <<"w", "-", "A", "G", "E", "N", "T", "-", "a", ".", "j", "s", "o", "n">>}

\* a field that the object does not have
Absent == [t |-> "Absent"]

\* the object of the fields given that are not Absent
MkObject(fields) ==
    JObject([k \in {k \in DOMAIN fields : fields[k] # Absent} |-> fields[k]])

\* the lines of the Codex history given to jhistory_json_to_data_row
JhistoryObjects ==
    { MkObject([text |-> text, display |-> display, session_id |-> session_id,
                sessionId |-> sessionId, ts |-> ts, timestamp |-> timestamp, cwd |-> cwd]) :
      text \in {Absent, JNull, JString(<<"h", "e", "l", "l", "o">>), JPosInt(<<"4", "2">>)},
      display \in {Absent, JString(<<"h", "i">>)},
      session_id \in {Absent, JNull, JString(<<"a", "b", "c", "1", "2", "3">>)},
      sessionId \in {Absent, JString(<<"s", "2">>)},
      ts \in {Absent, JNull, JPosInt(<<"1", "7", "5", "4", "4", "0", "2", "1", "0", "2">>), JString(<<"1", "7", "5", "4", "4", "0", "2", "1", "0", "2">>), JString(<<"a", "b", "c">>),
              JPosInt(<<"1", "7", "5", "4", "4", "0", "2", "1", "0", "2", "0", "0", "0">>), JPosInt(TenBillionMag), JPosInt(<<"1", "0", "0", "0", "0", "0", "0", "0", "0", "0", "1">>),
              JNegInt(I64MinMag), JPosInt(I64MaxMag), JFloat(<<"1", ".", "5">>)},
      timestamp \in {Absent, JPosInt(<<"1", "7", "5", "4", "4", "0", "2", "1", "0", "2", "0", "0", "0">>), JPosInt(<<"1", "7", "5", "4", "4", "0", "2", "1", "0", "2">>), JPosInt(TenBillionMag),
                     JPosInt(<<"1", "0", "0", "0", "0", "0", "0", "0", "0", "0", "1">>), JString(<<"1", "7", "5", "4", "4", "0", "2", "1", "0", "2", "0", "0", "0">>), JPosInt(I64MinMag),
                     JNegInt(<<"5">>)},
      cwd \in {Absent, JString(<<"/", "x">>)} }

(***************************************************************************)
(* mod.rs: SqlEngine::execute, from the payloads of the engine to the      *)
(* sequence of JSON objects.  A payload is [t, ..]:                          *)
(*   Select     labels, rows (each row a sequence of values)               *)
(*   SelectMap  rows (each row a map from key to value)                    *)
(*   Insert, Update, Delete, DropTable   count (its decimal digits)        *)
(*   ShowColumns  columns (each [name, type], type as {:?} prints it)      *)
(*   Create, and the payloads execute does not name                        *)
(***************************************************************************)
S_ok == <<"o", "k">>

\* for (label, value) in labels.iter().zip(row.iter()) { obj.insert(..) }:
\* a label that occurs again replaces the value inserted before
select_object(labels, row) ==
    The({ [k \in {labels[i] : i \in 1..n} |->
             glue_value_to_json(row[CHOOSE i \in 1..n :
                                      /\ labels[i] = k
                                      /\ \A j \in 1..n : labels[j] = k => j <= i])]
          : n \in {IF Len(labels) <= Len(row) THEN Len(labels) ELSE Len(row)} })

\* the objects pushed for one payload
payload_results(payload) ==
    CASE payload.t = "Select" ->
           [r \in 1..Len(payload.rows) |->
              JObject(select_object(payload.labels, payload.rows[r]))]
      [] payload.t = "SelectMap" ->
           [r \in 1..Len(payload.rows) |->
              JObject([k \in DOMAIN payload.rows[r] |-> glue_value_to_json(payload.rows[r][k])])]
      [] payload.t = "Insert" ->
           <<JObject([operation |-> JString(S_INSERT), rows_affected |-> JPosInt(payload.count)])>>
      [] payload.t = "Update" ->
           <<JObject([operation |-> JString(S_UPDATE), rows_affected |-> JPosInt(payload.count)])>>
      [] payload.t = "Delete" ->
           <<JObject([operation |-> JString(S_DELETE), rows_affected |-> JPosInt(payload.count)])>>
      [] payload.t = "Create" ->
           <<JObject([operation |-> JString(S_CREATE), success |-> JBool(TRUE)])>>
      [] payload.t = "DropTable" ->
           <<JObject([operation |-> JString(S_DROP), tables_dropped |-> JPosInt(payload.count)])>>
      [] payload.t = "ShowColumns" ->
           [c \in 1..Len(payload.columns) |->
              JObject([column_name |-> JString(payload.columns[c].name),
                       column_type |-> JString(payload.columns[c].type)])]
      [] OTHER -> <<JObject([result |-> JString(S_ok)])>>

\* for payload in payloads { .. }: the results of execute
RECURSIVE execute_results(_)
execute_results(payloads) ==
    IF payloads = << >> THEN << >>
    ELSE payload_results(Head(payloads)) \o execute_results(Tail(payloads))

\* execute is given at most MaxPayloads payloads by the engine
MaxPayloads == 2

\* the payloads of the engine
Payloads ==
    {\* SELECT a, b: two rows
     [t |-> "Select", labels |-> <<"a", "b">>,
      rows |-> <<<<VI64(I64(FALSE, <<"1">>)), VStr(<<"x">>)>>,
                 <<VI64(I64(TRUE, <<"2">>)), [t |-> "Null"]>>>>],
     \* SELECT h.id, t.id: two columns of the same label
     [t |-> "Select", labels |-> <<"id", "id">>,
      rows |-> <<<<VI64(I64(FALSE, <<"1">>)), VI64(I64(FALSE, <<"2">>))>>>>],
     \* no row
     [t |-> "Select", labels |-> <<"a">>, rows |-> << >>],
     \* SELECT * of a schemaless table
     [t |-> "SelectMap",
      rows |-> <<[text |-> VStr(<<"h", "i">>), ts |-> VI64(I64(FALSE, <<"5">>))],
                 [display |-> [t |-> "Bool", b |-> TRUE]]>>],
     [t |-> "Insert", count |-> <<"2">>],
     [t |-> "Update", count |-> <<"0">>],
     [t |-> "Delete", count |-> <<"1", "0">>],
     [t |-> "Create"],
     [t |-> "DropTable", count |-> <<"1">>],
     [t |-> "ShowColumns",
      columns |-> <<[name |-> <<"i", "d">>, type |-> <<"I", "n", "t">>],
                    [name |-> <<"t">>, type |-> <<"T", "e", "x", "t">>]>>],
     [t |-> "ShowColumns", columns |-> << >>],
     [t |-> "AlterTable"],
     [t |-> "StartTransaction"]}

\* the payload lists given to execute
PayloadLists == UNION {[1..n -> Payloads] : n \in 0..MaxPayloads}

\* the texts given to extract_table_name
TableNameTexts ==
    { \* DELETE FROM history WHERE id = 1
      <<"D", "E", "L", "E", "T", "E", " ", "F", "R", "O", "M", " ", "h", "i", "s", "t", "o",
        "r", "y", " ", "W", "H", "E", "R", "E", " ", "i", "d", " ", "=", " ", "1">>,
      \* UPDATE todos SET status = 'done'
      <<"U", "P", "D", "A", "T", "E", " ", "t", "o", "d", "o", "s", " ", "S", "E", "T", " ",
        "s", "t", "a", "t", "u", "s", " ", "=", " ", "'", "d", "o", "n", "e", "'">>,
      \* INSERT INTO history (col) VALUES (1)
      <<"I", "N", "S", "E", "R", "T", " ", "I", "N", "T", "O", " ", "h", "i", "s", "t", "o",
        "r", "y", " ", "(", "c", "o", "l", ")", " ", "V", "A", "L", "U", "E", "S", " ", "(",
        "1", ")">>,
      \* SELECT * FROM foo
      <<"S", "E", "L", "E", "C", "T", " ", "*", " ", "F", "R", "O", "M", " ", "f", "o", "o">>,
      \*  delete  from\tHistory_2 where x
      <<" ", "d", "e", "l", "e", "t", "e", " ", " ", "f", "r", "o", "m", "\t", "H", "i", "s",
        "t", "o", "r", "y", "_", "2", " ", "w", "h", "e", "r", "e", " ", "x">>,
      \* TRUNCATE TABLE history
      <<"T", "R", "U", "N", "C", "A", "T", "E", " ", "T", "A", "B", "L", "E", " ", "h", "i",
        "s", "t", "o", "r", "y">>,
      \* update t1;
      <<"u", "p", "d", "a", "t", "e", " ", "t", "1", ";">>,
      \* DROP TABLE history
      <<"D", "R", "O", "P", " ", "T", "A", "B", "L", "E", " ", "h", "i", "s", "t", "o", "r", "y">>,
      \* UPDATE todos SET c = 'DELETE FROM history'
      <<"U", "P", "D", "A", "T", "E", " ", "t", "o", "d", "o", "s", " ", "S", "E", "T", " ",
        "c", " ", "=", " ", "'", "D", "E", "L", "E", "T", "E", " ", "F", "R", "O", "M", " ",
        "h", "i", "s", "t", "o", "r", "y", "'">>,
      \* INSERT INTO history VALUES ('UPDATE x')
      <<"I", "N", "S", "E", "R", "T", " ", "I", "N", "T", "O", " ", "h", "i", "s", "t", "o",
        "r", "y", " ", "V", "A", "L", "U", "E", "S", " ", "(", "'", "U", "P", "D", "A", "T",
        "E", " ", "x", "'", ")">>,
      \* SELECT 'DELETE FROM x'
      <<"S", "E", "L", "E", "C", "T", " ", "'", "D", "E", "L", "E", "T", "E", " ", "F", "R",
        "O", "M", " ", "x", "'">>,
      \* the empty text
      << >> }

\* no file exists
NoFiles == [p \in {} |-> 0]

FnInit ==
    /\ files = NoFiles
    /\ write_enabled = FALSE
    /\ backup_enabled = TRUE
    /\ options = [write_enabled |-> FALSE, dry_run |-> FALSE]
    /\ call = NoCall(files)
    /\ store = NoStore(files)

\* a value is converted for the engine and the result back to JSON
ValueRoundTrip(v) ==
    /\ Idle
    /\ call' = [entry |-> "value_round_trip", arg |-> v,
                ret |-> glue_value_to_json(json_value_to_glue_value(v))]
    /\ UNCHANGED <<files, write_enabled, backup_enabled, options, store>>

ParseTodoFilename(filename) ==
    /\ Idle
    /\ call' = [entry |-> "parse_todo_filename", arg |-> filename,
                ret |-> parse_todo_filename(filename)]
    /\ UNCHANGED <<files, write_enabled, backup_enabled, options, store>>

JhistoryRow(json) ==
    /\ Idle
    /\ call' = [entry |-> "jhistory_json_to_data_row", arg |-> json,
                ret |-> jhistory_json_to_data_row(json)]
    /\ UNCHANGED <<files, write_enabled, backup_enabled, options, store>>

ExtractTableName(sql) ==
    /\ Idle
    /\ call' = [entry |-> "extract_table_name", arg |-> sql, ret |-> extract_table_name(sql)]
    /\ UNCHANGED <<files, write_enabled, backup_enabled, options, store>>

\* the part of SqlEngine::execute that follows the call of the engine
ExecuteResults(payloads) ==
    /\ Idle
    /\ call' = [entry |-> "execute_results", arg |-> payloads,
                ret |-> execute_results(payloads)]
    /\ UNCHANGED <<files, write_enabled, backup_enabled, options, store>>

FnNext ==
    \/ Return
    \/ \E v \in JsonValues : ValueRoundTrip(v)
    \/ \E filename \in TodoFilenames : ParseTodoFilename(filename)
    \/ \E json \in JhistoryObjects \cup JsonAtoms : JhistoryRow(json)
    \/ \E sql \in TableNameTexts : ExtractTableName(sql)
    \/ \E payloads \in PayloadLists : ExecuteResults(payloads)

FnSpec == FnInit /\ [][FnNext]_vars

(***************************************************************************)
(* Properties of the converters                                            *)
(***************************************************************************)
\* the string a field value stands for: itself, empty for null, its JSON
\* text for a number or boolean
StringOf(value) ==
    IF value.t = "String" THEN value.s
    ELSE IF value.t = "Null" THEN << >>
    ELSE json_to_string(value)

\* the first present of two fields as a string, empty when neither is present
FirstPresent(obj, first, second) ==
    IF first \in DOMAIN obj THEN StringOf(obj[first])
    ELSE IF second \in DOMAIN obj THEN StringOf(obj[second])
    ELSE << >>

\* the field holds an integer or a numeric string
Supplies(obj, k) == k \in DOMAIN obj /\ json_value_as_i64(obj[k]) # NoneI64

\* the raw timestamp: the integer of the first of ts, timestamp that
\* supplies one, 0 when none does
RawTimestamp(obj) ==
    IF Supplies(obj, "ts") THEN json_value_as_i64(obj["ts"])
    ELSE IF Supplies(obj, "timestamp") THEN json_value_as_i64(obj["timestamp"])
    ELSE I64(FALSE, <<"0">>)

\* the raw timestamp is above 10,000,000,000
IsMillis(raw) == ~raw.neg /\ MagLess(TenBillionMag, raw.mag)

C17_MillisByMagnitude ==
    (call.entry = "jhistory_json_to_data_row" /\ call.arg.t = "Object")
    => /\ call.ret.some
       /\ IF IsMillis(RawTimestamp(call.arg.o))
          THEN /\ call.ret.row["ts"] = VI64(div_1000(RawTimestamp(call.arg.o)))
               /\ call.ret.row["timestamp"]
                     = VI64(saturating_mul_1000(div_1000(RawTimestamp(call.arg.o))))
          ELSE call.ret.row["ts"] = VI64(RawTimestamp(call.arg.o))

\* every number of the value is an integer of the signed 64-bit range
RECURSIVE InI64Range(_)
InI64Range(v) ==
    CASE v.t = "Number" -> v.k # "Float" /\ FitsI64(v.k = "NegInt", v.mag)
      [] v.t = "Array"  -> \A i \in 1..Len(v.a) : InI64Range(v.a[i])
      [] v.t = "Object" -> \A k \in DOMAIN v.o : InI64Range(v.o[k])
      [] OTHER          -> TRUE

\* C18: glue_value_to_json(json_value_to_glue_value(v)) = v for every value
\* built from null, booleans, strings, integers of the signed 64-bit range,
\* arrays and objects.
C18_CodecRoundTrip ==
    (call.entry = "value_round_trip" /\ InI64Range(call.arg)) => call.ret = call.arg

\* an object holding an array of a negative integer and i64::MAX came back
C18_Witness ==
    /\ call.entry = "value_round_trip"
    /\ call.arg = JObject([a |-> JArray(<<JNegInt(<<"1">>)>>), b |-> JPosInt(I64MaxMag)])
    /\ call.ret = call.arg

\* C19: parse_todo_filename strips a trailing ".json" and splits the rest at
\* the first "-agent-" into (workspace_id, agent_id); without "-agent-" the
\* workspace_id is the whole stripped name and the agent_id is "unknown".
C19_ParseTodoFilename ==
    call.entry = "parse_todo_filename"
    => LET stem == unwrap_or(strip_suffix(call.arg, S_dot_json), call.arg)
       IN  IF contains(stem, S_agent_delim)
           THEN /\ call.ret.workspace_id \o S_agent_delim \o call.ret.agent_id = stem
                /\ \A i \in Occurrences(stem, S_agent_delim) :
                      Len(call.ret.workspace_id) <= i
           ELSE call.ret = [workspace_id |-> stem, agent_id |-> S_unknown]

\* a name with two delimiters was split at the first
C19_Witness ==
    /\ call.entry = "parse_todo_filename"
    /\ call.arg = <<"a", "-", "a", "g", "e", "n", "t", "-", "b", "-", "a", "g", "e", "n", "t", "-", "c", ".", "j", "s", "o", "n">>
    /\ call.ret = [workspace_id |-> <<"a">>, agent_id |-> <<"b", "-", "a", "g", "e", "n", "t", "-", "c">>]

(***************************************************************************)
(* composite_storage.rs: the scans of the virtual tables.                  *)
(*                                                                         *)
(* Here the content of a file is what a scan reads from it:                *)
(*   a .jsonl file    [open, lines]  open: File::open succeeds             *)
(*   a .json file     [open, doc]    open: read_to_string can open it      *)
(*   a directory      [open]         open: read_dir succeeds               *)
(* A line, and the text of a .json file, is [kind, v]: "json" is text that *)
(* serde_json parses to the value v, "garbage" text it rejects, "blank" an *)
(* empty or white line, "invalid_utf8" bytes that are no UTF-8, for which  *)
(* reading the line (or read_to_string) returns Err.                       *)
(* A row is [key, row, src]; src, the file and line (or element) the row   *)
(* was made from, is kept for the properties and is no part of the code's  *)
(* row.                                                                    *)
(***************************************************************************)
Text(kind, v) == [kind |-> kind, v |-> v]

\* reader.lines().map_while(Result::ok): the lines up to the first one
\* that cannot be read, each with its index
read_lines(lines0) ==
    The({ The({ [i \in 1..n |-> [index |-> i, line |-> lines[i]]]
                : n \in {IF bad = {} THEN Len(lines)
                         ELSE (CHOOSE i \in bad : \A j \in bad : i <= j) - 1} })
          : lines \in {lines0},
            bad \in {{i \in 1..Len(lines0) : lines0[i].kind = "invalid_utf8"}} })

\* rows.push((Key::I64(row_id), data_row)); row_id += 1, for each item
RECURSIVE push_each(_, _)
push_each(acc, items) ==
    IF items = << >> THEN acc
    ELSE push_each([rows   |-> Append(acc.rows, [key |-> acc.row_id,
                                                 row |-> Head(items).row,
                                                 src |-> Head(items).src]),
                    row_id |-> acc.row_id + 1],
                   Tail(items))

ScanOk(rows) == [ok |-> TRUE, rows |-> rows]

\* Err(GlueError::StorageMsg(..))
ScanErr == [ok |-> FALSE, rows |-> << >>]

\* the path of an entry of a directory
Entry(dir, name) == dir \o <<"/">> \o name

\* the names of the entries directly inside dir
DirEntries(dir, fs) ==
    {SubSeq(p, Len(dir) + 2, Len(p)) :
       p \in {q \in DOMAIN fs : /\ starts_with(q, dir \o <<"/">>)
                                /\ file_name(q) = SubSeq(q, Len(dir) + 2, Len(q))}}

\* CompositeStorage::scan_jhistory
scan_jhistory(fs) ==
    IF jhistory_file \notin DOMAIN fs THEN ScanOk(<< >>)
    ELSE IF ~fs[jhistory_file].open THEN ScanErr
    ELSE The({ ScanOk(push_each([rows |-> << >>, row_id |-> 0],
                                [i \in 1..Len(kept) |->
                                   [row |-> jhistory_json_to_data_row(kept[i].line.v).row,
                                    src |-> [file |-> jhistory_file,
                                             index |-> kept[i].index]]]).rows)
               : kept \in {SelectSeq(read_lines(fs[jhistory_file].lines),
                                     LAMBDA x : /\ x.line.kind = "json"
                                                /\ jhistory_json_to_data_row(x.line.v).some)} })

\* json_to_data_row_with_meta: the two synthetic columns are inserted
\* first, then every field of the object
json_to_data_row_with_meta(json, source_file, session_id) ==
    The({ [k \in {"_source_file", "_session_id"} \cup DOMAIN obj |->
              IF k \in DOMAIN obj THEN json_value_to_glue_value(obj[k])
              ELSE IF k = "_source_file" THEN VStr(source_file)
              ELSE VStr(session_id)]
          : obj \in {IF json.t = "Object" THEN json.o ELSE EmptyMap} })

\* todo_json_to_data_row: the three synthetic columns are inserted first,
\* then every field of the object
todo_json_to_data_row(json, source_file, workspace_id, agent_id) ==
    The({ [k \in {"_source_file", "_workspace_id", "_agent_id"} \cup DOMAIN obj |->
              IF k \in DOMAIN obj THEN json_value_to_glue_value(obj[k])
              ELSE IF k = "_source_file" THEN VStr(source_file)
              ELSE IF k = "_workspace_id" THEN VStr(workspace_id)
              ELSE VStr(agent_id)]
          : obj \in {IF json.t = "Object" THEN json.o ELSE EmptyMap} })

\* source_file.strip_prefix("ses_").and_then(|s| s.strip_suffix(".jsonl"))
\*    .unwrap_or(&source_file)
session_id_of(source_file) ==
    The({ IF stripped = None THEN source_file
          ELSE unwrap_or(strip_suffix(stripped, S_dot_jsonl), source_file)
          : stripped \in {strip_prefix(source_file, S_ses_)} })

\* the rows (without key) of one entry of the transcripts directory
transcripts_file_rows(fs, name) ==
    The({ IF extension(path) # Tail(S_dot_jsonl) \/ ~fs[path].open THEN << >>
          ELSE The({ [i \in 1..Len(kept) |->
                        [row |-> json_to_data_row_with_meta(kept[i].line.v, name,
                                                            session_id_of(name)),
                         src |-> [file |-> name, index |-> kept[i].index]]]
                     : kept \in {SelectSeq(read_lines(fs[path].lines),
                                           LAMBDA x : x.line.kind = "json")} })
          : path \in {Entry(S_transcripts, name)} })

\* the loop of scan_transcripts with a row_id that starts at 0 in each file
RECURSIVE transcripts_loop_key_per_file(_, _, _)
transcripts_loop_key_per_file(acc, entries, fs) ==
    IF entries = << >> THEN acc
    ELSE transcripts_loop_key_per_file(
             push_each([rows |-> acc.rows, row_id |-> 0],
                       transcripts_file_rows(fs, Head(entries))),
             Tail(entries), fs)

\* for entry in entries.flatten() { .. } of scan_transcripts
RECURSIVE transcripts_loop(_, _, _)
transcripts_loop(acc, entries, fs) ==
    IF entries = << >> THEN acc
    ELSE transcripts_loop(push_each(acc, transcripts_file_rows(fs, Head(entries))),
                          Tail(entries), fs)

\* CompositeStorage::scan_transcripts; entries is the directory in the
\* order read_dir yields it
scan_transcripts(fs, entries) ==
    IF S_transcripts \notin DOMAIN fs THEN ScanOk(<< >>)
    ELSE IF ~fs[S_transcripts].open THEN ScanErr
    ELSE ScanOk(transcripts_loop([rows |-> << >>, row_id |-> 0], entries, fs).rows)

\* the rows (without key) of one entry of the todos directory
todos_file_rows(fs, name) ==
    The({ IF extension(path) # Tail(S_dot_json) \/ ~fs[path].open
             \/ fs[path].doc.kind # "json"
          THEN << >>
          ELSE The({ IF json.t = "Array"
                     THEN [i \in 1..Len(json.a) |->
                             [row |-> todo_json_to_data_row(json.a[i], name,
                                                            ids.workspace_id, ids.agent_id),
                              src |-> [file |-> name, index |-> i]]]
                     ELSE IF json.t = "Object"
                     THEN <<[row |-> todo_json_to_data_row(json, name, ids.workspace_id,
                                                           ids.agent_id),
                             src |-> [file |-> name, index |-> 0]]>>
                     ELSE << >>
                     : json \in {fs[path].doc.v}, ids \in {parse_todo_filename(name)} })
          : path \in {Entry(S_todos, name)} })

\* the loop of scan_todos that ends at the first entry that is no .json file
RECURSIVE todos_loop_break_on_other(_, _, _)
todos_loop_break_on_other(acc, entries, fs) ==
    IF entries = << >> \/ extension(Head(entries)) # Tail(S_dot_json) THEN acc
    ELSE todos_loop_break_on_other(push_each(acc, todos_file_rows(fs, Head(entries))),
                                   Tail(entries), fs)

\* the loop of scan_todos that makes rows of arrays only
RECURSIVE todos_loop_arrays_only(_, _, _)
todos_loop_arrays_only(acc, entries, fs) ==
    IF entries = << >> THEN acc
    ELSE todos_loop_arrays_only(
             push_each(acc, SelectSeq(todos_file_rows(fs, Head(entries)),
                                      LAMBDA x : x.src.index # 0)),
             Tail(entries), fs)

\* for entry in entries.flatten() { .. } of scan_todos
RECURSIVE todos_loop(_, _, _)
todos_loop(acc, entries, fs) ==
    IF entries = << >> THEN acc
    ELSE todos_loop(push_each(acc, todos_file_rows(fs, Head(entries))), Tail(entries), fs)

\* CompositeStorage::scan_todos; entries is the directory in the order
\* read_dir yields it
scan_todos(fs, entries) ==
    IF S_todos \notin DOMAIN fs THEN ScanOk(<< >>)
    ELSE IF ~fs[S_todos].open THEN ScanErr
    ELSE ScanOk(todos_loop([rows |-> << >>, row_id |-> 0], entries, fs).rows)

(***************************************************************************)
(* The scans applied to directories drawn from bounded sets                *)
(***************************************************************************)
\* a .jsonl file has at most MaxLines lines
MaxLines == 2

\* an array in a todos file has at most MaxElements elements
MaxElements == 2

\* the lines of a .jsonl file: an object, an object that has fields named
\* as the synthetic columns, a number, and the three kinds of bad line
Lines ==
    {Text("json", JObject([type |-> JString(<<"u">>), text |-> JString(<<"h", "e", "l", "l", "o">>)])),
     Text("json", JObject(("_source_file" :> JString(<<"e", "v", "i", "l">>))
                          @@ ("_session_id" :> JString(<<"e", "v", "i", "l">>))
                          @@ ("type" :> JString(<<"a">>)))),
     Text("json", JPosInt(<<"4", "2">>)),
     Text("garbage", JNull), Text("blank", JNull), Text("invalid_utf8", JNull)}

\* the contents of a .jsonl file
JsonlContents ==
    {[open |-> FALSE, lines |-> << >>]}
    \cup {[open |-> TRUE, lines |-> l] : l \in UNION {[1..n -> Lines] : n \in 0..MaxLines}}

\* the elements of the array of a todos file
TodoElements ==
    {JObject([content |-> JString(<<"x">>), status |-> JString(<<"p", "e", "n", "d", "i", "n", "g">>),
              activeForm |-> JString(<<"d", "o", "i", "n", "g", " ", "x">>)]),
     JObject(("content" :> JString(<<"y">>))
             @@ ("_workspace_id" :> JString(<<"e", "v", "i", "l">>))
             @@ ("_agent_id" :> JString(<<"e", "v", "i", "l">>))),
     JPosInt(<<"7">>)}

\* the contents of a .json file of the todos directory
TodoContents ==
    {[open |-> FALSE, doc |-> Text("blank", JNull)]}
    \cup {[open |-> TRUE, doc |-> d] :
            d \in {Text("json", JArray(a)) :
                     a \in UNION {[1..n -> TodoElements] : n \in 0..MaxElements}}
                  \cup {Text("json", v) : v \in {e \in TodoElements : e.t = "Object"}}
                  \cup {Text("json", JString(<<"s">>)), Text("garbage", JNull),
                        Text("blank", JNull), Text("invalid_utf8", JNull)}}

\* the file system of the entries given (name -> content or Absent) in dir
DirFiles(dir, open, entries) ==
    [p \in {dir} \cup {Entry(dir, n) : n \in {m \in DOMAIN entries : entries[m] # Absent}}
       |-> IF p = dir THEN [open |-> open]
           ELSE entries[SubSeq(p, Len(dir) + 2, Len(p))]]

N_ses_1 == <<"s", "e", "s", "_", "1", ".", "j", "s", "o", "n", "l">>

N_alpha == <<"a", "l", "p", "h", "a", "-", "a", "g", "e", "n", "t", "-", "b", "e", "t", "a", ".", "j", "s", "o", "n">>

N_simple == <<"s", "i", "m", "p", "l", "e", ".", "j", "s", "o", "n">>

\* the directories the scans are run on
ScanFiles ==
    {NoFiles}
    \cup {(jhistory_file :> c) : c \in JsonlContents}
    \cup {DirFiles(S_transcripts, open,
                   \* ses_1.jsonl, x.jsonl, notes.txt, sub, sub/ses_1.jsonl
                   (N_ses_1 :> c1)
                   @@ (<<"x", ".", "j", "s", "o", "n", "l">> :> c2)
                   @@ (<<"n", "o", "t", "e", "s", ".", "t", "x", "t">> :> c3)
                   @@ (<<"s", "u", "b">> :> d)
                   @@ (Entry(<<"s", "u", "b">>, N_ses_1) :> d)) :
            open \in BOOLEAN,
            c1 \in JsonlContents \cup {Absent},
            c2 \in {Absent, [open |-> FALSE, lines |-> << >>]}
                   \cup {[open |-> TRUE, lines |-> l] :
                           l \in {<<Text("json", JObject(EmptyMap))>>,
                                  <<Text("invalid_utf8", JNull),
                                    Text("json", JObject(EmptyMap))>>}},
            c3 \in {Absent, [open |-> TRUE, lines |-> <<Text("json", JObject(EmptyMap))>>]},
            d \in {Absent, [open |-> TRUE, lines |-> <<Text("json", JObject(EmptyMap))>>]}}
    \cup {DirFiles(S_todos, open,
                   \* alpha-agent-beta.json, simple.json, readme.md, sub,
                   \* sub/simple.json
                   (N_alpha :> c1)
                   @@ (N_simple :> c2)
                   @@ (<<"r", "e", "a", "d", "m", "e", ".", "m", "d">> :> c3)
                   @@ (<<"s", "u", "b">> :> d)
                   @@ (Entry(<<"s", "u", "b">>, N_simple) :> d)) :
            open \in BOOLEAN,
            c1 \in TodoContents \cup {Absent},
            c2 \in {Absent, [open |-> TRUE, doc |-> Text("garbage", JNull)]}
                   \cup {[open |-> TRUE, doc |-> Text("json", v)] :
                           v \in {JArray(<<JObject(EmptyMap)>>), JObject(EmptyMap)}},
            c3 \in {Absent, [open |-> TRUE, doc |-> Text("json", JObject(EmptyMap))]},
            d \in {Absent, [open |-> TRUE, doc |-> Text("json", JObject(EmptyMap))]}}

\* the orders read_dir may yield the entries of dir in
ReadDirOrders(dir, fs) ==
    The({ {o \in [1..Cardinality(names) -> names] :
             \A i, j \in 1..Cardinality(names) : o[i] = o[j] => i = j}
          : names \in {DirEntries(dir, fs)} })

ScanInit ==
    /\ files \in ScanFiles
    /\ write_enabled = FALSE
    /\ backup_enabled = TRUE
    /\ options = [write_enabled |-> FALSE, dry_run |-> FALSE]
    /\ call = NoCall(files)
    /\ store = NoStore(files)

ScanJhistory ==
    /\ Idle
    /\ call' = [entry |-> "scan_jhistory", arg |-> << >>, ret |-> scan_jhistory(files)]
    /\ UNCHANGED <<files, write_enabled, backup_enabled, options, store>>

ScanTranscripts(entries) ==
    /\ Idle
    /\ call' = [entry |-> "scan_transcripts", arg |-> entries,
                ret |-> scan_transcripts(files, entries)]
    /\ UNCHANGED <<files, write_enabled, backup_enabled, options, store>>

ScanTodos(entries) ==
    /\ Idle
    /\ call' = [entry |-> "scan_todos", arg |-> entries,
                ret |-> scan_todos(files, entries)]
    /\ UNCHANGED <<files, write_enabled, backup_enabled, options, store>>

ScanNext ==
    \/ Return
    \/ ScanJhistory
    \/ \E entries \in ReadDirOrders(S_transcripts, files) : ScanTranscripts(entries)
    \/ \E entries \in ReadDirOrders(S_todos, files) : ScanTodos(entries)

ScanSpec == ScanInit /\ [][ScanNext]_vars

(***************************************************************************)
(* Properties of the scans                                                 *)
(***************************************************************************)
ScanCall == call.entry \in {"scan_jhistory", "scan_transcripts", "scan_todos"}

\* the indices of the rows made from the file
RowsFrom(rows, file) == {i \in 1..Len(rows) : rows[i].src.file = file}

\* the place of an entry in the enumeration of its directory
PlaceOf(entries, name) == CHOOSE k \in 1..Len(entries) : entries[k] = name

\* C13: in every row of the transcripts scan and of the todos scan the
\* synthetic columns hold the values derived from the name of the file the
\* row was read from, also when the record has a field of the same name.
C13_SyntheticColumnsWin ==
    /\ call.entry = "scan_transcripts"
       => \A i \in 1..Len(call.ret.rows) :
             LET r == call.ret.rows[i]
             IN  /\ r.row["_source_file"] = VStr(r.src.file)
                 /\ r.row["_session_id"] = VStr(session_id_of(r.src.file))
    /\ call.entry = "scan_todos"
       => \A i \in 1..Len(call.ret.rows) :
             LET r == call.ret.rows[i]
             IN  /\ r.row["_source_file"] = VStr(r.src.file)
                 /\ r.row["_workspace_id"] = VStr(parse_todo_filename(r.src.file).workspace_id)
                 /\ r.row["_agent_id"] = VStr(parse_todo_filename(r.src.file).agent_id)

\* C14: in the result of every scan the row keys are 0, 1, .., n-1 in output
\* order; the rows follow the enumeration order of the files and, within a
\* file, the order of its lines or elements.
C14_SequentialKeys ==
    (ScanCall /\ call.ret.ok)
    => /\ \A i \in 1..Len(call.ret.rows) : call.ret.rows[i].key = i - 1
       /\ \A i, j \in 1..Len(call.ret.rows) :
             i < j =>
               LET a == call.ret.rows[i].src
                   b == call.ret.rows[j].src
               IN  IF a.file = b.file THEN a.index < b.index
                   ELSE PlaceOf(call.arg, a.file) < PlaceOf(call.arg, b.file)

\* two files gave rows, the second only from its second line, the first line
\* having been skipped, and the keys are 0 and 1
C14_Witness ==
    /\ call.entry = "scan_transcripts"
    /\ Len(call.ret.rows) = 2
    /\ call.ret.rows[1].src.file # call.ret.rows[2].src.file
    /\ call.ret.rows[2].src.index = 2
    /\ call.ret.rows[2].key = 1

\* the lines of a .jsonl file that parse as JSON
ParsableLines(content) == {i \in 1..Len(content.lines) : content.lines[i].kind = "json"}

\* C15: a scan fails only when its file or directory cannot be opened; when
\* it succeeds, every line that parses (for jhistory: to an object) of every
\* file that can be opened has its row, whatever else the files hold.
C15_BadContentIsSkipped ==
    /\ call.entry = "scan_jhistory"
       => /\ call.ret.ok <=> (jhistory_file \in DOMAIN files => files[jhistory_file].open)
          /\ (call.ret.ok /\ jhistory_file \in DOMAIN files)
             => \A i \in ParsableLines(files[jhistory_file]) :
                   files[jhistory_file].lines[i].v.t = "Object"
                   => \E r \in 1..Len(call.ret.rows) : call.ret.rows[r].src.index = i
    /\ call.entry = "scan_transcripts"
       => /\ call.ret.ok <=> (S_transcripts \in DOMAIN files => files[S_transcripts].open)
          /\ call.ret.ok
             => \A n \in 1..Len(call.arg) :
                   LET name == call.arg[n]
                       content == files[Entry(S_transcripts, name)]
                   IN  (extension(name) = Tail(S_dot_jsonl) /\ content.open)
                       => \A i \in ParsableLines(content) :
                             \E r \in RowsFrom(call.ret.rows, name) :
                                call.ret.rows[r].src.index = i
    /\ call.entry = "scan_todos"
       => /\ call.ret.ok <=> (S_todos \in DOMAIN files => files[S_todos].open)
          /\ call.ret.ok
             => \A n \in 1..Len(call.arg) :
                   LET name == call.arg[n]
                       content == files[Entry(S_todos, name)]
                   IN  (/\ extension(name) = Tail(S_dot_json)
                        /\ content.open
                        /\ content.doc.kind = "json"
                        /\ content.doc.v.t = "Object")
                       => RowsFrom(call.ret.rows, name) # {}

\* the number of rows a todos file should give
ExpectedTodoRows(name, content) ==
    IF extension(name) = Tail(S_dot_json) /\ content.open /\ content.doc.kind = "json"
    THEN IF content.doc.v.t = "Array" THEN Len(content.doc.v.a)
         ELSE IF content.doc.v.t = "Object" THEN 1 ELSE 0
    ELSE 0

\* C20: the todos scan gives, for each *.json file directly inside the
\* directory, one row per element of an array and one row for an object,
\* each with the record's fields and the columns _source_file, _workspace_id
\* and _agent_id; other files and other content give no row.
C20_TodosScan ==
    (call.entry = "scan_todos" /\ call.ret.ok)
    => /\ \A i \in 1..Len(call.ret.rows) :
             \E n \in 1..Len(call.arg) : call.arg[n] = call.ret.rows[i].src.file
       /\ \A n \in 1..Len(call.arg) :
             LET name == call.arg[n]
                 content == files[Entry(S_todos, name)]
             IN  /\ Cardinality(RowsFrom(call.ret.rows, name))
                       = ExpectedTodoRows(name, content)
                 /\ \A i \in RowsFrom(call.ret.rows, name) :
                       LET r == call.ret.rows[i]
                           record == IF content.doc.v.t = "Array"
                                     THEN content.doc.v.a[r.src.index]
                                     ELSE content.doc.v
                           fields == IF record.t = "Object" THEN DOMAIN record.o ELSE {}
                           ids == parse_todo_filename(name)
                       IN  /\ \A k \in fields :
                                r.row[k] = json_value_to_glue_value(record.o[k])
                           /\ DOMAIN r.row
                                 = fields \cup {"_source_file", "_workspace_id", "_agent_id"}
                           /\ "_source_file" \notin fields
                                 => r.row["_source_file"] = VStr(name)
                           /\ "_workspace_id" \notin fields
                                 => r.row["_workspace_id"] = VStr(ids.workspace_id)
                           /\ "_agent_id" \notin fields
                                 => r.row["_agent_id"] = VStr(ids.agent_id)

\* alpha-agent-beta.json holding a one-element array gave one row with
\* _workspace_id = 'alpha', _agent_id = 'beta', content = 'x', status = 'pending'
C20_Witness ==
    /\ call.entry = "scan_todos"
    /\ N_alpha \in DirEntries(S_todos, files)
    /\ files[Entry(S_todos, N_alpha)].open
    /\ files[Entry(S_todos, N_alpha)].doc.kind = "json"
    /\ files[Entry(S_todos, N_alpha)].doc.v.t = "Array"
    /\ Len(files[Entry(S_todos, N_alpha)].doc.v.a) = 1
    /\ \E i \in 1..Len(call.ret.rows) :
          /\ RowsFrom(call.ret.rows, N_alpha) = {i}
          /\ call.ret.rows[i].row["_workspace_id"] = VStr(<<"a", "l", "p", "h", "a">>)
          /\ call.ret.rows[i].row["_agent_id"] = VStr(<<"b", "e", "t", "a">>)
          /\ call.ret.rows[i].row["content"] = VStr(<<"x">>)
          /\ call.ret.rows[i].row["status"] = VStr(<<"p", "e", "n", "d", "i", "n", "g">>)

\* the rows of a scan as a multiset: how many times each row occurs, the
\* keys left out
RowBag(rows) ==
    [x \in {rows[i].row : i \in 1..Len(rows)} |->
        Cardinality({i \in 1..Len(rows) : rows[i].row = x})]

\* the result without what is kept for the properties only
KeyedRows(rows) == [i \in 1..Len(rows) |-> [key |-> rows[i].key, row |-> rows[i].row]]

\* the scan of the table that the call made, repeated on the same files
\* with the directory enumerated in the order given
ScanAgain(entries) ==
    IF call.entry = "scan_transcripts" THEN scan_transcripts(files, entries)
    ELSE scan_todos(files, entries)

\* C22: a second scan of the same table over unchanged files returns the
\* same (key, row) sequence when the directory is enumerated in the same
\* order, and the same multiset of rows, keys ignored, in any other order.
C22_ScanIdempotent ==
    call.entry \in {"scan_transcripts", "scan_todos"}
    => \A entries \in ReadDirOrders(IF call.entry = "scan_transcripts" THEN S_transcripts
                                     ELSE S_todos, files) :
          LET again == ScanAgain(entries)
          IN  /\ again.ok = call.ret.ok
              /\ RowBag(again.rows) = RowBag(call.ret.rows)
              /\ entries = call.arg
                 => KeyedRows(again.rows) = KeyedRows(call.ret.rows)

\* a todos scan gave rows from two files, and in another enumeration order
\* the same rows come with other keys
C22_Witness ==
    /\ call.entry = "scan_todos"
    /\ \E i, j \in 1..Len(call.ret.rows) :
          call.ret.rows[i].src.file # call.ret.rows[j].src.file
    /\ \E entries \in ReadDirOrders(S_todos, files) :
          /\ entries # call.arg
          /\ KeyedRows(scan_todos(files, entries).rows) # KeyedRows(call.ret.rows)

\* the lines of an entry of the transcripts directory that should give a
\* row: the non-empty lines of a *.jsonl file that parse as a JSON object
ObjectLines(name, content) ==
    IF extension(name) = Tail(S_dot_jsonl) /\ content.open
    THEN {i \in 1..Len(content.lines) : /\ content.lines[i].kind = "json"
                                        /\ content.lines[i].v.t = "Object"}
    ELSE {}

\* C28: the transcripts scan gives exactly one row for each non-empty line
\* that parses as a JSON object, of the *.jsonl files directly inside the
\* directory; empty lines, unparsable lines and lines that hold another
\* JSON value give no row.
C28_RowPerObjectLine ==
    (call.entry = "scan_transcripts" /\ call.ret.ok)
    => /\ \A i \in 1..Len(call.ret.rows) :
             \E n \in 1..Len(call.arg) : call.arg[n] = call.ret.rows[i].src.file
       /\ \A n \in 1..Len(call.arg) :
             LET name == call.arg[n]
                 from == RowsFrom(call.ret.rows, name)
                 lines == ObjectLines(name, files[Entry(S_transcripts, name)])
             IN  /\ {call.ret.rows[r].src.index : r \in from} = lines
                 /\ Cardinality(from) = Cardinality(lines)

\* the file name without the prefix 'ses_' and without the suffix '.jsonl',
\* each removed when the name has it
WithoutPrefixAndSuffix(name) ==
    The({ unwrap_or(strip_suffix(rest, S_dot_jsonl), rest)
          : rest \in {unwrap_or(strip_prefix(name, S_ses_), name)} })

\* the fields of the record that a row of the transcripts scan was made from
RecordFields(r) ==
    The({ IF json.t = "Object" THEN DOMAIN json.o ELSE {}
          : json \in {files[Entry(S_transcripts, r.src.file)].lines[r.src.index].v} })

\* C29: in a row of the transcripts scan _session_id is the name of the file
\* without the prefix 'ses_' and the suffix '.jsonl', each removed when
\* present, and so never ends in '.jsonl'; _source_file is the file name.
\* (Rows whose record has a field of that name are left to C13.)
C29_SessionIdStripped ==
    call.entry = "scan_transcripts"
    => \A i \in 1..Len(call.ret.rows) :
          LET r == call.ret.rows[i]
          IN  /\ "_session_id" \notin RecordFields(r)
                 => /\ r.row["_session_id"] = VStr(WithoutPrefixAndSuffix(r.src.file))
                    /\ strip_suffix(r.row["_session_id"].s, S_dot_jsonl) = None
              /\ "_source_file" \notin RecordFields(r)
                 => r.row["_source_file"] = VStr(r.src.file)

(***************************************************************************)
(* Properties of the rejection of mutations                                *)
(***************************************************************************)
\* a mutation method returned the error of CompositeStorage itself
Rejected == store.method # "none" /\ ~store.delegated /\ store.result = "Err"

\* the text says that the table cannot be written
SaysReadOnly(message) ==
    \E w \in {<<"r","e","a","d","-","o","n","l","y">>, <<"r","e","a","d"," ","o","n","l","y">>,
               <<"r","e","a","d","o","n","l","y">>} : contains(to_lowercase(message), w)

\* C24: every error CompositeStorage returns for a mutation method called on
\* a virtual table names that table and says that it is virtual and
\* read-only.
C24_RejectionNamesTable ==
    Rejected
    => /\ \E t \in {store.table_name, store.new_table_name} :
             is_virtual_table(t) /\ contains(store.message, t)
       /\ contains(store.message, <<"v","i","r","t","u","a","l">>)
       /\ SaysReadOnly(store.message)

(***************************************************************************)
(* composite_storage.rs: the read methods of the Store and Index traits,   *)
(* and SqlEngine::list_tables of mod.rs.  CompositeStorage holds the       *)
(* JsonStorage and the Config and nothing else; each read method builds    *)
(* its rows from the files at the time of the call.                        *)
(***************************************************************************)
\* the match on table_name of scan_data and fetch_data, with jhistory served
\* from the files as they were when the previous call returned
virtual_table_rows_jhistory_kept(table_name, fs, entries) ==
    IF table_name \in {S_jhistory, S_codex_history} THEN scan_jhistory(call.pre)
    ELSE IF table_name = S_transcripts THEN scan_transcripts(fs, entries)
    ELSE IF table_name = S_todos THEN scan_todos(fs, entries)
    ELSE ScanOk(<< >>)

\* the match on table_name of scan_data and fetch_data
virtual_table_rows(table_name, fs, entries) ==
    IF table_name \in {S_jhistory, S_codex_history} THEN scan_jhistory(fs)
    ELSE IF table_name = S_transcripts THEN scan_transcripts(fs, entries)
    ELSE IF table_name = S_todos THEN scan_todos(fs, entries)
    ELSE ScanOk(<< >>)

\* the call is passed on to JsonStorage
Delegated == [delegated |-> TRUE]

\* Store::scan_data
scan_data(table_name, fs, entries) ==
    IF is_virtual_table(table_name) THEN virtual_table_rows(table_name, fs, entries)
    ELSE Delegated

\* Store::fetch_data: the first row of the scan that has the key
fetch_data(table_name, key, fs, entries) ==
    IF is_virtual_table(table_name)
    THEN The({ IF ~r.ok THEN [ok |-> FALSE, some |-> FALSE]
               ELSE The({ IF hits = {} THEN [ok |-> TRUE, some |-> FALSE]
                          ELSE [ok |-> TRUE, some |-> TRUE,
                                row |-> r.rows[CHOOSE i \in hits : \A j \in hits : i <= j].row]
                          : hits \in {{i \in 1..Len(r.rows) : r.rows[i].key = key}} })
               : r \in {virtual_table_rows(table_name, fs, entries)} })
    ELSE Delegated

\* Index::scan_indexed_data: a virtual table has no index and is scanned
scan_indexed_data(table_name, fs, entries) ==
    IF is_virtual_table(table_name) THEN scan_data(table_name, fs, entries)
    ELSE Delegated

\* SqlEngine::list_tables that lists a table when its file or directory can
\* be opened
list_tables_if_openable(fs) ==
    (IF history_file \in DOMAIN fs /\ fs[history_file].open THEN <<S_history>> ELSE << >>)
    \o (IF stats_file \in DOMAIN fs /\ fs[stats_file].open THEN <<S_stats>> ELSE << >>)
    \o (IF S_transcripts \in DOMAIN fs /\ fs[S_transcripts].open THEN <<S_transcripts>>
        ELSE << >>)
    \o (IF S_todos \in DOMAIN fs /\ fs[S_todos].open THEN <<S_todos>> ELSE << >>)

\* SqlEngine::list_tables
list_tables(fs) ==
    (IF history_file \in DOMAIN fs THEN <<S_history>> ELSE << >>)
    \o (IF stats_file \in DOMAIN fs THEN <<S_stats>> ELSE << >>)
    \o (IF S_transcripts \in DOMAIN fs THEN <<S_transcripts>> ELSE << >>)
    \o (IF S_todos \in DOMAIN fs THEN <<S_todos>> ELSE << >>)

\* what JsonStorage::fetch_all_schemas may return: an error, or the schemas
\* of the single-file tables
JsonSchemas(fs) ==
    {[ok |-> FALSE, schemas |-> << >>],
     [ok |-> TRUE, schemas |-> IF history_file \in DOMAIN fs THEN <<S_history>> ELSE << >>]}

\* Store::fetch_all_schemas: the names of the schemas returned
fetch_all_schemas(fs, json_schemas) ==
    IF ~json_schemas.ok THEN [ok |-> FALSE, schemas |-> << >>]
    ELSE [ok |-> TRUE,
          schemas |-> json_schemas.schemas
                      \o (IF jhistory_file \in DOMAIN fs THEN <<S_jhistory, S_codex_history>>
                          ELSE << >>)
                      \o (IF S_transcripts \in DOMAIN fs THEN <<S_transcripts>> ELSE << >>)
                      \o (IF S_todos \in DOMAIN fs THEN <<S_todos>> ELSE << >>)]

(***************************************************************************)
(* The read methods called while the files change between the calls        *)
(***************************************************************************)
\* the data directories the read methods are called on: each backing file
\* or directory is absent or has one of a few contents
StoreFiles ==
    { h @@ s @@ j @@ t @@ d :
        h \in {NoFiles, (history_file :> [open |-> TRUE, lines |-> << >>])},
        s \in {NoFiles, (stats_file :> [open |-> FALSE, doc |-> Text("blank", JNull)])},
        j \in {NoFiles}
              \cup {(jhistory_file :> c) :
                      c \in {[open |-> FALSE, lines |-> << >>],
                             [open |-> TRUE,
                              lines |-> <<Text("json", JObject([text |-> JString(<<"a">>)]))>>],
                             [open |-> TRUE,
                              lines |-> <<Text("json", JObject([text |-> JString(<<"b">>)])),
                                          Text("json", JObject([text |-> JString(<<"c">>)]))>>]}},
        t \in {NoFiles,
               \* the directory cannot be read
               DirFiles(S_transcripts, FALSE, (N_ses_1 :> Absent)),
               \* ses_1.jsonl of one line
               DirFiles(S_transcripts, TRUE,
                        (N_ses_1 :> [open |-> TRUE,
                                     lines |-> <<Text("json", JObject([type |-> JString(<<"u">>)]))>>])),
               \* ses_1.jsonl of two lines and x.jsonl of one
               DirFiles(S_transcripts, TRUE,
                        (N_ses_1 :> [open |-> TRUE,
                                     lines |-> <<Text("json", JObject([type |-> JString(<<"v">>)])),
                                                 Text("garbage", JNull),
                                                 Text("json", JObject([type |-> JString(<<"w">>)]))>>])
                        @@ (<<"x", ".", "j", "s", "o", "n", "l">>
                              :> [open |-> TRUE, lines |-> <<Text("json", JObject(EmptyMap))>>]))},
        d \in {NoFiles,
               \* alpha-agent-beta.json holding an array of one element
               DirFiles(S_todos, TRUE,
                        (N_alpha :> [open |-> TRUE,
                                     doc |-> Text("json", JArray(<<JObject([content |-> JString(<<"x">>)])>>))])),
               \* the array has two elements, and simple.json holds an object
               DirFiles(S_todos, TRUE,
                        (N_alpha :> [open |-> TRUE,
                                     doc |-> Text("json", JArray(<<JObject([content |-> JString(<<"y">>)]),
                                                                   JObject([content |-> JString(<<"z">>)])>>))])
                        @@ (N_simple :> [open |-> TRUE, doc |-> Text("json", JObject(EmptyMap))]))} }

\* the files and directories that back the tables
BackingRoots == {history_file, stats_file, jhistory_file, S_transcripts, S_todos}

\* what fs holds at the root and below it
Part(fs, root) ==
    [p \in {q \in DOMAIN fs : q = root \/ starts_with(q, root \o <<"/">>)} |-> fs[p]]

\* the data directories that differ from fs in what backs one table: a
\* backing file added, removed or changed
OneChange ==
    [fs \in StoreFiles |->
       {new \in StoreFiles :
          Cardinality({root \in BackingRoots : Part(fs, root) # Part(new, root)}) = 1}]

\* the orders in which the directory of the table may be enumerated
OrdersFor(table_name, fs) ==
    IF table_name \in {S_transcripts, S_todos} THEN ReadDirOrders(table_name, fs)
    ELSE {<< >>}

\* the tables the read methods are called on
ReadTables == VirtualTables \cup {S_history}

\* the keys fetch_data is called with
FetchKeys == 0..2

\* what a call did; changed: the files are not as they were when the
\* previous call returned
StoreCall(entry, arg, ret) ==
    [entry |-> entry, arg |-> arg, ret |-> ret, changed |-> call.pre # files]

StoreInit ==
    /\ files \in StoreFiles
    /\ write_enabled = FALSE
    /\ backup_enabled = TRUE
    /\ options = [write_enabled |-> FALSE, dry_run |-> FALSE]
    /\ call = NoCall(files)
    /\ store = NoStore(files)

\* between two calls another program adds, removes or changes a backing file
ChangeFiles(new) ==
    /\ Idle
    /\ new \in OneChange[files]
    /\ files' = new
    /\ store' = NoStore(new)
    /\ UNCHANGED <<write_enabled, backup_enabled, options, call>>

StoreScanData(table_name, entries) ==
    /\ Idle
    /\ call' = StoreCall("scan_data", [table_name |-> table_name, entries |-> entries],
                         scan_data(table_name, files, entries))
    /\ UNCHANGED <<files, write_enabled, backup_enabled, options, store>>

StoreFetchData(table_name, key, entries) ==
    /\ Idle
    /\ call' = StoreCall("fetch_data",
                         [table_name |-> table_name, key |-> key, entries |-> entries],
                         fetch_data(table_name, key, files, entries))
    /\ UNCHANGED <<files, write_enabled, backup_enabled, options, store>>

StoreScanIndexedData(table_name, entries) ==
    /\ Idle
    /\ call' = StoreCall("scan_indexed_data",
                         [table_name |-> table_name, entries |-> entries],
                         scan_indexed_data(table_name, files, entries))
    /\ UNCHANGED <<files, write_enabled, backup_enabled, options, store>>

ListTables ==
    /\ Idle
    /\ call' = StoreCall("list_tables", << >>, list_tables(files))
    /\ UNCHANGED <<files, write_enabled, backup_enabled, options, store>>

FetchAllSchemas(json_schemas) ==
    /\ Idle
    /\ call' = StoreCall("fetch_all_schemas", << >>, fetch_all_schemas(files, json_schemas))
    /\ UNCHANGED <<files, write_enabled, backup_enabled, options, store>>

StoreNext ==
    \/ Return
    \/ \E new \in StoreFiles : ChangeFiles(new)
    \/ \E t \in ReadTables : \E entries \in OrdersFor(t, files) : StoreScanData(t, entries)
    \/ \E t \in ReadTables, key \in FetchKeys :
          \E entries \in OrdersFor(t, files) : StoreFetchData(t, key, entries)
    \/ \E t \in ReadTables : \E entries \in OrdersFor(t, files) : StoreScanIndexedData(t, entries)
    \/ ListTables
    \/ \E json_schemas \in JsonSchemas(files) : FetchAllSchemas(json_schemas)

StoreSpec == StoreInit /\ [][StoreNext]_vars

(***************************************************************************)
(* Properties of the read methods                                          *)
(***************************************************************************)
\* the rows of the table in the files as they are now
FreshRows(table_name, entries) ==
    IF table_name \in {S_jhistory, S_codex_history} THEN scan_jhistory(files)
    ELSE IF table_name = S_transcripts THEN scan_transcripts(files, entries)
    ELSE scan_todos(files, entries)

BackingOf(table_name) ==
    CASE table_name = S_history -> history_file
      [] table_name = S_stats -> stats_file
      [] table_name \in {S_jhistory, S_codex_history} -> jhistory_file
      [] table_name = S_transcripts -> S_transcripts
      [] table_name = S_todos -> S_todos

\* the names in a sequence
Names(seq) == {seq[i] : i \in 1..Len(seq)}

\* C23: list_tables returns a table only if its backing file or directory
\* exists at the time of the call, and what it returns is decided by which
\* paths exist alone: whether they can be opened and what they hold plays
\* no part.
C23_ListedTablesExist ==
    call.entry = "list_tables"
    => /\ \A t \in Names(call.ret) : BackingOf(t) \in DOMAIN files
       /\ \A fs \in StoreFiles :
             (\A root \in BackingRoots : root \in DOMAIN fs <=> root \in DOMAIN files)
             => list_tables(fs) = call.ret

\* the transcripts directory exists and cannot be read, the history file
\* does not exist: transcripts is listed, history is not
C23_Witness ==
    /\ call.entry = "list_tables"
    /\ S_transcripts \in DOMAIN files
    /\ ~files[S_transcripts].open
    /\ history_file \notin DOMAIN files
    /\ S_transcripts \in Names(call.ret)
    /\ S_history \notin Names(call.ret)

\* the tables the tool offers
OfferedTables == {S_history, S_stats, S_jhistory, S_codex_history, S_transcripts, S_todos}

\* C30: list_tables includes every table the tool offers whose backing file
\* or directory exists, and so names the same virtual tables as
\* fetch_all_schemas reports for the same files.
C30_ListsEveryOfferedTable ==
    call.entry = "list_tables"
    => /\ \A t \in OfferedTables : BackingOf(t) \in DOMAIN files => t \in Names(call.ret)
       /\ \A json_schemas \in JsonSchemas(files) :
             json_schemas.ok
             => Names(call.ret) \cap VirtualTables
                  = Names(fetch_all_schemas(files, json_schemas).schemas) \cap VirtualTables

(***************************************************************************)
(* Properties of extract_table_name                                        *)
(***************************************************************************)
\* the keywords that are followed by the target table of a write statement
TargetKeywords == {S_DELETE_FROM_SP, S_UPDATE \o <<" ">>, S_INSERT_INTO_SP, S_TRUNCATE \o <<" ">>}

\* the identifier at the start of the text: its longest prefix of
\* alphanumerics and underscores, lower-cased
LeadingIdentifier(s) ==
    to_lowercase(SubSeq(s, 1, CHOOSE n \in 0..Len(s) :
                                 /\ \A i \in 1..n : is_alphanumeric(s[i]) \/ s[i] = "_"
                                 /\ n < Len(s) => ~(is_alphanumeric(s[n + 1]) \/ s[n + 1] = "_")))

\* C25: for a statement that begins with DELETE FROM, UPDATE, INSERT INTO or
\* TRUNCATE, in any case, extract_table_name returns the first identifier
\* after that leading keyword, lower-cased, whatever follows it; for a
\* statement that contains none of the four it returns none.
C25_TargetOfLeadingKeyword ==
    call.entry = "extract_table_name"
    => LET n == normalize_sql(call.arg)
       IN  /\ \A kw \in TargetKeywords :
                 starts_with(n, kw)
                 => call.ret = LeadingIdentifier(SubSeq(n, Len(kw) + 1, Len(n)))
           /\ (\A kw \in TargetKeywords : ~contains(n, kw)) => call.ret = None

(***************************************************************************)
(* Properties of the results of execute                                    *)
(***************************************************************************)
\* the number of objects a payload should give
ObjectsFor(payload) ==
    IF payload.t \in {"Select", "SelectMap"} THEN Len(payload.rows)
    ELSE IF payload.t = "ShowColumns" THEN Len(payload.columns)
    ELSE 1

\* the number of objects the first n payloads should give
RECURSIVE ObjectsBefore(_, _)
ObjectsBefore(payloads, n) ==
    IF n = 0 THEN 0 ELSE ObjectsBefore(payloads, n - 1) + ObjectsFor(payloads[n])

\* the object is what the claim says of the k-th object of the payload
ObjectAsClaimed(obj, payload, k) ==
    /\ obj.t = "Object"
    /\ CASE payload.t = "Select" ->
              \A i \in 1..Len(payload.labels) :
                 /\ payload.labels[i] \in DOMAIN obj.o
                 /\ obj.o[payload.labels[i]] = glue_value_to_json(payload.rows[k][i])
         [] payload.t = "SelectMap" ->
              \A key \in DOMAIN payload.rows[k] :
                 /\ key \in DOMAIN obj.o
                 /\ obj.o[key] = glue_value_to_json(payload.rows[k][key])
         [] payload.t \in {"Insert", "Update", "Delete", "DropTable"} ->
              /\ obj.o["operation"]
                    = JString(CASE payload.t = "Insert" -> S_INSERT
                                [] payload.t = "Update" -> S_UPDATE
                                [] payload.t = "Delete" -> S_DELETE
                                [] payload.t = "DropTable" -> S_DROP)
              /\ \E key \in DOMAIN obj.o : obj.o[key] = JPosInt(payload.count)
         [] payload.t = "Create" -> obj.o["operation"] = JString(S_CREATE)
         [] payload.t = "ShowColumns" ->
              \E key \in DOMAIN obj.o : obj.o[key] = JString(payload.columns[k].name)
         [] OTHER -> obj = JObject([result |-> JString(S_ok)])

\* C26: the results of execute are one flat sequence of JSON objects in the
\* order of the payloads: per row of a row set an object that has every
\* selected column of the row, label and value; an object with the operation
\* and the count for INSERT, UPDATE, DELETE and DROP; an acknowledgement for
\* CREATE; an object per column of a column listing; a generic 'ok' object
\* for any other payload.
C26_PayloadsNormalized ==
    call.entry = "execute_results"
    => /\ Len(call.ret) = ObjectsBefore(call.arg, Len(call.arg))
       /\ \A n \in 1..Len(call.arg) :
             \A k \in 1..ObjectsFor(call.arg[n]) :
                ObjectAsClaimed(call.ret[ObjectsBefore(call.arg, n - 1) + k], call.arg[n], k)

(***************************************************************************)
(* execute given texts in which the statement does not come first          *)
(***************************************************************************)
PrefixNext ==
    \/ Return
    \/ \E opts \in [write_enabled : BOOLEAN, dry_run : BOOLEAN] : New(opts)
    \/ \E st \in Statements \cup PrefixedStatements, copy_ok \in BOOLEAN : Execute(st, copy_ok)

PrefixSpec == Init /\ [][PrefixNext]_vars

\* what the engine executes as a mutation
MutatingOps == {"Insert", "Update", "Delete", "DropTable", "CreateTable", "AlterTable"}

\* C27: with write mode disabled no call of execute changes a file or makes
\* a backup, whatever the text, also when the mutating statement follows a
\* comment or an earlier read-only statement: every text the engine executes
\* as a mutation is write-class for is_write_operation.
C27_WriteDisabledNeverWrites ==
    /\ (Executed /\ ~call.write_enabled) => files = call.pre
    /\ (Executed /\ call.st.op \in MutatingOps) => is_write_operation_of[call.st.sql]

====
